---------------------------- MODULE Spec2Model ----------------------------
(***************************************************************************)
(* A model of the bookstack-cli import engine: the import command   of     *)
(* src/bookstack-cli.ts, ImportCommand (commands/import.ts) and the        *)
(* BookStackClient calls it makes against a remote store of Books,         *)
(* Chapters and Pages.                                                     *)
(*                                                                         *)
(* Text (names, file contents, html) is a sequence of one-character        *)
(* strings, so that toLowerCase, extname, basename, the markdown           *)
(* conversion and the README heading extraction are computed as the code   *)
(* computes them.  An optional value (a field that may be undefined) is a  *)
(* set: {} when undefined, {v} when set.                                   *)
(***************************************************************************)
EXTENDS Integers, Sequences, FiniteSets, TLC

(* ------------------------------ bounds --------------------------------- *)

\* deepest folder nesting below a first-level subdirectory in the trees tried
MaxNest == 2
\* largest --max-depth value tried (besides unset and a non-numeric value)
MaxDepthArg == 3

(* ------------------------------- text ---------------------------------- *)

None == {}
Some(x) == {x}
Get(opt) == CHOOSE x \in opt : TRUE

\* JavaScript truthiness of an optional string: undefined and '' are falsy
Truthy(opt) == opt # {} /\ opt # {<<>>}

\* a || b on optional strings
OrElse(a, b) == IF Truthy(a) THEN a ELSE b

Min(a, b) == IF a < b THEN a ELSE b
Max(a, b) == IF a > b THEN a ELSE b

Range(s) == {s[i] : i \in 1..Len(s)}

RECURSIVE Concat(_)
\* the concatenation of a sequence of sequences
Concat(ss) == IF ss = <<>> THEN <<>> ELSE Head(ss) \o Concat(Tail(ss))

\* s with its first n elements dropped
Drop(s, n) == SubSeq(s, n + 1, Len(s))

\* pat occurs in s starting at position i
MatchAt(s, i, pat) ==
  /\ i >= 1
  /\ i + Len(pat) - 1 <= Len(s)
  /\ SubSeq(s, i, i + Len(pat) - 1) = pat

StartsWith(s, pat) == MatchAt(s, 1, pat)
EndsWith(s, pat) == MatchAt(s, Len(s) - Len(pat) + 1, pat)

\* String.prototype.includes
Includes(s, pat) == \E i \in 1..(Len(s) + 1) : MatchAt(s, i, pat)

LowerChar(ch) ==
  CASE ch = "A" -> "a" [] ch = "B" -> "b" [] ch = "C" -> "c" [] ch = "D" -> "d"
    [] ch = "E" -> "e" [] ch = "F" -> "f" [] ch = "G" -> "g" [] ch = "H" -> "h"
    [] ch = "I" -> "i" [] ch = "J" -> "j" [] ch = "K" -> "k" [] ch = "L" -> "l"
    [] ch = "M" -> "m" [] ch = "N" -> "n" [] ch = "O" -> "o" [] ch = "P" -> "p"
    [] ch = "Q" -> "q" [] ch = "R" -> "r" [] ch = "S" -> "s" [] ch = "T" -> "t"
    [] ch = "U" -> "u" [] ch = "V" -> "v" [] ch = "W" -> "w" [] ch = "X" -> "x"
    [] ch = "Y" -> "y" [] ch = "Z" -> "z" [] OTHER -> ch

\* String.prototype.toLowerCase
ToLowerCase(s) == [i \in 1..Len(s) |-> LowerChar(s[i])]

Digits == {"0", "1", "2", "3", "4", "5", "6", "7", "8", "9"}

DigitVal(ch) ==
  CASE ch = "0" -> 0 [] ch = "1" -> 1 [] ch = "2" -> 2 [] ch = "3" -> 3
    [] ch = "4" -> 4 [] ch = "5" -> 5 [] ch = "6" -> 6 [] ch = "7" -> 7
    [] ch = "8" -> 8 [] ch = "9" -> 9

DigitChar(n) ==
  CASE n = 0 -> "0" [] n = 1 -> "1" [] n = 2 -> "2" [] n = 3 -> "3"
    [] n = 4 -> "4" [] n = 5 -> "5" [] n = 6 -> "6" [] n = 7 -> "7"
    [] n = 8 -> "8" [] OTHER -> "9"

\* the regular expression class \s, over the characters used here
WhiteSpace == {" ", "\t", "\n", "\r"}

\* /^\d+$/.test(s)
IsAllDigits(s) == Len(s) > 0 /\ \A i \in 1..Len(s) : s[i] \in Digits

RECURSIVE DigitsValue(_, _)
\* the value of the longest run of digits at the start of s, after acc
DigitsValue(s, acc) ==
  IF s = <<>> \/ Head(s) \notin Digits THEN acc
  ELSE DigitsValue(Tail(s), 10 * acc + DigitVal(Head(s)))

RECURSIVE TrimStart(_)
TrimStart(s) ==
  IF s # <<>> /\ Head(s) \in WhiteSpace THEN TrimStart(Tail(s)) ELSE s

RECURSIVE TrimEnd(_)
TrimEnd(s) ==
  IF s # <<>> /\ s[Len(s)] \in WhiteSpace THEN TrimEnd(SubSeq(s, 1, Len(s) - 1))
  ELSE s

\* String.prototype.trim
Trim(s) == TrimEnd(TrimStart(s))

\* a number that may be NaN
NaN == [finite |-> FALSE, n |-> 0]
Num(n) == [finite |-> TRUE, n |-> n]

\* parseInt(s, 10): leading white space, an optional sign, then digits
ParseInt(s) ==
  LET t == TrimStart(s)
      neg == t # <<>> /\ Head(t) = "-"
      u == IF t # <<>> /\ Head(t) \in {"-", "+"} THEN Tail(t) ELSE t
  IN IF u = <<>> \/ Head(u) \notin Digits THEN NaN
     ELSE Num(IF neg THEN 0 - DigitsValue(u, 0) ELSE DigitsValue(u, 0))

RECURSIVE SplitLines(_, _)
\* s split at every "\n"; cur is the line read so far
SplitLines(s, cur) ==
  IF s = <<>> THEN <<cur>>
  ELSE IF Head(s) = "\n" THEN <<cur>> \o SplitLines(Tail(s), <<>>)
  ELSE SplitLines(Tail(s), Append(cur, Head(s)))

RECURSIVE JoinLines(_)
JoinLines(ls) ==
  IF Len(ls) = 0 THEN <<>>
  ELSE IF Len(ls) = 1 THEN ls[1]
  ELSE ls[1] \o <<"\n">> \o JoinLines(Tail(ls))


(* ------------------------------ literals ------------------------------- *)

\* the grave accent character (U+0060), which a TLA+ string cannot hold
Backtick == "GRAVE"

H1Open == <<"<", "h", "1", ">">>
H1Close == <<"<", "/", "h", "1", ">">>
H2Open == <<"<", "h", "2", ">">>
H2Close == <<"<", "/", "h", "2", ">">>
H3Open == <<"<", "h", "3", ">">>
H3Close == <<"<", "/", "h", "3", ">">>
StrongEmOpen == <<"<", "s", "t", "r", "o", "n", "g", ">", "<", "e", "m", ">">>
StrongEmClose == <<"<", "/", "e", "m", ">", "<", "/", "s", "t", "r", "o", "n", "g", ">">>
StrongOpen == <<"<", "s", "t", "r", "o", "n", "g", ">">>
StrongClose == <<"<", "/", "s", "t", "r", "o", "n", "g", ">">>
EmOpen == <<"<", "e", "m", ">">>
EmClose == <<"<", "/", "e", "m", ">">>
PreCodeOpen == <<"<", "p", "r", "e", ">", "<", "c", "o", "d", "e", ">">>
PreCodeClose == <<"<", "/", "c", "o", "d", "e", ">", "<", "/", "p", "r", "e", ">">>
CodeOpen == <<"<", "c", "o", "d", "e", ">">>
CodeClose == <<"<", "/", "c", "o", "d", "e", ">">>
ParaBreak == <<"<", "/", "p", ">", "<", "p", ">">>
Br == <<"<", "b", "r", ">">>
POpen == <<"<", "p", ">">>
PClose == <<"<", "/", "p", ">">>
PreOpen == <<"<", "p", "r", "e", ">">>
PreClose == <<"<", "/", "p", "r", "e", ">">>
HrefOpen == <<"<", "a", " ", "h", "r", "e", "f", "=", "\"">>
HrefMid == <<"\"", ">">>
HrefClose == <<"<", "/", "a", ">">>
Amp == <<"&", "a", "m", "p", ";">>
Lt == <<"&", "l", "t", ";">>
Gt == <<"&", "g", "t", ";">>
Quot == <<"&", "q", "u", "o", "t", ";">>
Apos == <<"&", "#", "3", "9", ";">>
ExtMd == <<".", "m", "d">>
ExtMarkdown == <<".", "m", "a", "r", "k", "d", "o", "w", "n">>
ExtHtml == <<".", "h", "t", "m", "l">>
ExtHtm == <<".", "h", "t", "m">>
ExtTxt == <<".", "t", "x", "t">>
FmtMarkdown == <<"m", "a", "r", "k", "d", "o", "w", "n">>
FmtHtml == <<"h", "t", "m", "l">>
ChapterMetaFile == <<".", "c", "h", "a", "p", "t", "e", "r", "-", "m", "e", "t", "a", "d", "a", "t", "a", ".", "j", "s", "o", "n">>
BookMetaFile == <<".", "b", "o", "o", "k", "-", "m", "e", "t", "a", "d", "a", "t", "a", ".", "j", "s", "o", "n">>
ReadmeUpper == <<"R", "E", "A", "D", "M", "E", ".", "m", "d">>
ReadmeCap == <<"R", "e", "a", "d", "m", "e", ".", "m", "d">>
ReadmeLower == <<"r", "e", "a", "d", "m", "e", ".", "m", "d">>
IndexMd == <<"i", "n", "d", "e", "x", ".", "m", "d">>
DefaultBookDescription == <<"B", "o", "o", "k", " ", "c", "r", "e", "a", "t", "e", "d", " ", "b", "y", " ", "b", "o", "o", "k", "s", "t", "a", "c", "k", "-", "c", "l", "i", " ", "i", "m", "p", "o", "r", "t">>

(* --------------------------- regular expressions ------------------------ *)

RECURSIVE ReplaceAll(_, _, _)
\* s.replace(/pat/g, rep) for a literal pat: left to right, not overlapping
ReplaceAll(s, pat, rep) ==
  IF s = <<>> THEN <<>>
  ELSE IF StartsWith(s, pat) THEN rep \o ReplaceAll(Drop(s, Len(pat)), pat, rep)
  ELSE <<Head(s)>> \o ReplaceAll(Tail(s), pat, rep)

\* the positions at which close ends a match that opened at i: the text in
\* between has at least minLen characters, none of them in excl
CloseAt(s, i, open, close, excl, minLen) ==
  {j \in (i + Len(open) + minLen)..Len(s) :
     /\ MatchAt(s, j, close)
     /\ \A k \in (i + Len(open))..(j - 1) : s[k] \notin excl}

SetMin(S) == CHOOSE x \in S : \A y \in S : x <= y
SetMax(S) == CHOOSE x \in S : \A y \in S : x >= y

RECURSIVE ReplacePairFrom(_, _, _, _, _, _, _, _)
ReplacePairFrom(s, i, open, close, pre, post, excl, minLen) ==
  IF i > Len(s) THEN <<>>
  ELSE IF MatchAt(s, i, open) /\ CloseAt(s, i, open, close, excl, minLen) # {}
  THEN LET j == SetMin(CloseAt(s, i, open, close, excl, minLen))
       IN pre \o SubSeq(s, i + Len(open), j - 1) \o post
            \o ReplacePairFrom(s, j + Len(close), open, close, pre, post, excl, minLen)
  ELSE <<s[i]>> \o ReplacePairFrom(s, i + 1, open, close, pre, post, excl, minLen)

\* s.replace(/open(X)close/g, 'pre$1post') where X is a shortest run of at least
\* minLen characters outside excl: (.*?) has excl = {"\n"} and minLen = 0,
\* a run of one or more non-backticks has excl = {Backtick} and minLen = 1,
\* ([\s\S]*?) has excl = {} and minLen = 0
ReplacePair(s, open, close, pre, post, excl, minLen) ==
  ReplacePairFrom(s, 1, open, close, pre, post, excl, minLen)

\* the first position >= i holding ch, or 0
FirstIndex(s, i, ch) ==
  IF \E j \in i..Len(s) : s[j] = ch
  THEN SetMin({j \in i..Len(s) : s[j] = ch}) ELSE 0

RECURSIVE ReplaceLinksFrom(_, _)
ReplaceLinksFrom(s, i) ==
  IF i > Len(s) THEN <<>>
  ELSE
    LET rb == FirstIndex(s, i + 1, "]")
        rp == IF rb = 0 THEN 0 ELSE FirstIndex(s, rb + 2, ")")
        ok == /\ s[i] = "["
              /\ rb >= i + 2
              /\ MatchAt(s, rb + 1, <<"(">>)
              /\ rp >= rb + 3
    IN IF ok
       THEN HrefOpen \o SubSeq(s, rb + 2, rp - 1) \o HrefMid
              \o SubSeq(s, i + 1, rb - 1) \o HrefClose \o ReplaceLinksFrom(s, rp + 1)
       ELSE <<s[i]>> \o ReplaceLinksFrom(s, i + 1)

\* html.replace(/\[([^\]]+)\]\(([^)]+)\)/g, '<a href="$2">$1</a>')
ReplaceLinks(s) == ReplaceLinksFrom(s, 1)

\* html.replace(/^marker(.*$)/gm, 'open$1close'): every line that starts with
\* marker becomes open, the rest of the line, close
ReplaceHeading(s, marker, open, close) ==
  LET ls == SplitLines(s, <<>>)
  IN JoinLines([i \in 1..Len(ls) |->
       IF StartsWith(ls[i], marker)
       THEN open \o Drop(ls[i], Len(marker)) \o close
       ELSE ls[i]])

(* ------------------------------- paths ---------------------------------- *)

\* the last position of "." in name, or 0
LastDot(name) ==
  IF \E i \in 1..Len(name) : name[i] = "."
  THEN SetMax({i \in 1..Len(name) : name[i] = "."}) ELSE 0

\* path.extname of a file name: from its last "." on, '' for a name with no
\* "." or with its only "." in front
ExtName(name) ==
  IF LastDot(name) <= 1 THEN <<>> ELSE SubSeq(name, LastDot(name), Len(name))

\* path.basename(name, ext) of a file name: the name without a trailing ext
BaseName(name, ext) ==
  IF ext # <<>> /\ ext # name /\ EndsWith(name, ext)
  THEN SubSeq(name, 1, Len(name) - Len(ext)) ELSE name


(* ---------------------- Format Converter (import.ts) -------------------- *)

SupportedExtensions == {ExtMd, ExtMarkdown, ExtHtml, ExtHtm, ExtTxt}

\* ImportCommand.isSupportedFile
isSupportedFile(fileName) == ToLowerCase(ExtName(fileName)) \in SupportedExtensions

\* ImportCommand.detectFormat
detectFormat(fileName) ==
  LET ext == ToLowerCase(ExtName(fileName))
  IN IF ext \in {ExtMd, ExtMarkdown} THEN FmtMarkdown
     ELSE IF ext \in {ExtHtml, ExtHtm} THEN FmtHtml
     ELSE FmtMarkdown

\* ImportCommand.escapeHtml
escapeHtml(text) ==
  LET t1 == ReplaceAll(text, <<"&">>, Amp)
      t2 == ReplaceAll(t1, <<"<">>, Lt)
      t3 == ReplaceAll(t2, <<">">>, Gt)
      t4 == ReplaceAll(t3, <<"\"">>, Quot)
  IN ReplaceAll(t4, <<"'">>, Apos)

\* ImportCommand.simpleMarkdownToHtml
simpleMarkdownToHtml(markdown) ==
  LET h3 == ReplaceHeading(markdown, <<"#", "#", "#", " ">>, H3Open, H3Close)
      h2 == ReplaceHeading(h3, <<"#", "#", " ">>, H2Open, H2Close)
      h1 == ReplaceHeading(h2, <<"#", " ">>, H1Open, H1Close)
      b3 == ReplacePair(h1, <<"*", "*", "*">>, <<"*", "*", "*">>,
                        StrongEmOpen, StrongEmClose, {"\n"}, 0)
      b2 == ReplacePair(b3, <<"*", "*">>, <<"*", "*">>, StrongOpen, StrongClose, {"\n"}, 0)
      b1 == ReplacePair(b2, <<"*">>, <<"*">>, EmOpen, EmClose, {"\n"}, 0)
      ln == ReplaceLinks(b1)
      cb == ReplacePair(ln, <<Backtick, Backtick, Backtick>>,
                        <<Backtick, Backtick, Backtick>>,
                        PreCodeOpen, PreCodeClose, {}, 0)
      ci == ReplacePair(cb, <<Backtick>>, <<Backtick>>, CodeOpen, CodeClose, {Backtick}, 1)
      pp == ReplaceAll(ci, <<"\n", "\n">>, ParaBreak)
      br == ReplaceAll(pp, <<"\n">>, Br)
  IN IF ~Includes(br, POpen) /\ ~Includes(br, H1Open)
          /\ ~Includes(br, H2Open) /\ ~Includes(br, H3Open)
     THEN POpen \o br \o PClose
     ELSE br

\* ImportCommand.convertToHtml
convertToHtml(content, format) ==
  IF format = FmtHtml THEN content
  ELSE IF format = FmtMarkdown THEN simpleMarkdownToHtml(content)
  ELSE PreOpen \o escapeHtml(content) \o PreClose

\* the pageData a page-creation step builds: html by fmt, markdown kept only
\* when fmt is "markdown"
PageBody(content, fmt) ==
  [html |-> convertToHtml(content, fmt),
   markdown |-> IF fmt = FmtMarkdown THEN Some(content) ELSE None]

(* ---------------------- Metadata Resolver (import.ts) ------------------- *)

\* the end of the line that holds position q
LineEnd(s, q) ==
  IF \E j \in q..Len(s) : s[j] = "\n"
  THEN SetMin({j \in q..Len(s) : s[j] = "\n"}) - 1 ELSE Len(s)

\* the positions q at which (.+)$ can start after marker at i and \s+
HeadingStarts(s, i, marker) ==
  {q \in (i + Len(marker) + 1)..Len(s) :
     /\ \A k \in (i + Len(marker))..(q - 1) : s[k] \in WhiteSpace
     /\ s[q] # "\n"}

\* the line starts at which /^marker\s+(.+)$/m matches
HeadingMatches(s, marker) ==
  {i \in 1..Len(s) :
     /\ i = 1 \/ s[i - 1] = "\n"
     /\ MatchAt(s, i, marker)
     /\ HeadingStarts(s, i, marker) # {}}

\* content.match(/^marker\s+(.+)$/m): the capture of the first match (\s+ is
\* greedy, (.+) runs to the end of its line), or undefined
HeadingMatch(s, marker) ==
  IF HeadingMatches(s, marker) = {} THEN None
  ELSE LET i == SetMin(HeadingMatches(s, marker))
           q == SetMax(HeadingStarts(s, i, marker))
       IN Some(SubSeq(s, q, LineEnd(s, q)))

\* the name one README candidate yields: its first heading, else its first
\* non-blank line, else undefined
NameFromContent(content) ==
  LET m == OrElse(OrElse(HeadingMatch(content, <<"#">>),
                         HeadingMatch(content, <<"#", "#">>)),
                  HeadingMatch(content, <<"#", "#", "#">>))
      ls == SplitLines(content, <<>>)
      nonBlank == {i \in 1..Len(ls) : Len(Trim(ls[i])) > 0}
  IN IF m # None THEN Some(Trim(Get(m)))
     ELSE IF nonBlank # {} THEN Some(Trim(ls[SetMin(nonBlank)]))
     ELSE None

ReadmeCandidates == <<ReadmeUpper, ReadmeCap, ReadmeLower, IndexMd>>


(* ---------------------------- the file system --------------------------- *)

\* what JSON.parse makes of a sidecar file: kind is "invalid" (a syntax error),
\* "null" (the JSON value null) or "object" (with optional name, description)
NoJson == [kind |-> "none", name |-> None, description |-> None]
JsonInvalid == [kind |-> "invalid", name |-> None, description |-> None]
JsonNull == [kind |-> "null", name |-> None, description |-> None]
JsonObject(name, description) ==
  [kind |-> "object", name |-> name, description |-> description]

File(name, content) ==
  [name |-> name, kind |-> "file", content |-> content, json |-> NoJson, entries |-> <<>>]
JsonFile(name, json) ==
  [name |-> name, kind |-> "file", content |-> <<>>, json |-> json, entries |-> <<>>]
Dir(name, entries) ==
  [name |-> name, kind |-> "dir", content |-> <<>>, json |-> NoJson, entries |-> entries]

\* fs.pathExists(path.join(dir, name)) and the entry found there
Lookup(entries, name) == {entries[i] : i \in {j \in 1..Len(entries) : entries[j].name = name}}
pathExists(entries, name) == Lookup(entries, name) # {}

\* a reader that swallows the parse failure without a word
readMetadataSilent(entries, metaFile) ==
  IF ~pathExists(entries, metaFile)
  THEN [name |-> None, description |-> None, warned |-> FALSE]
  ELSE LET data == Get(Lookup(entries, metaFile)).json
       IN [name |-> data.name, description |-> data.description, warned |-> FALSE]

\* readChapterMetadata / readBookMetadata on the directory's sidecar file:
\* the {name, description} read, and whether the parse failure was warned of
readMetadata(entries, metaFile) ==
  IF ~pathExists(entries, metaFile)
  THEN [name |-> None, description |-> None, warned |-> FALSE]
  ELSE LET data == Get(Lookup(entries, metaFile)).json
       IN IF data.kind = "object"
          THEN [name |-> data.name, description |-> data.description, warned |-> FALSE]
          ELSE [name |-> None, description |-> None, warned |-> TRUE]

\* console.warn(`Warning: failed to parse ${metaPath}: ...`): console.warn is
\* not the console.log that configureUi silences
consoleWarn(err, warned, metaPath) ==
  IF warned THEN Append(err, [line |-> "Warning", text |-> metaPath]) ELSE err

readChapterMetadata(entries) == readMetadata(entries, ChapterMetaFile)
readBookMetadata(entries) == readMetadata(entries, BookMetaFile)

RECURSIVE deriveNameFrom(_, _)
\* the loop of deriveNameFromReadme from candidate i on
deriveNameFrom(entries, i) ==
  IF i > Len(ReadmeCandidates) THEN None
  ELSE IF pathExists(entries, ReadmeCandidates[i])
          /\ NameFromContent(Get(Lookup(entries, ReadmeCandidates[i])).content) # None
  THEN NameFromContent(Get(Lookup(entries, ReadmeCandidates[i])).content)
  ELSE deriveNameFrom(entries, i + 1)

\* ImportCommand.deriveNameFromReadme
deriveNameFromReadme(entries) == deriveNameFrom(entries, 1)

RECURSIVE walk(_, _, _)
\* the inner walk of walkFiles: the files handed to onFile, in order, each
\* with its path below the walk's root
walk(entries, path, currentDepth) ==
  IF entries = <<>> THEN <<>>
  ELSE LET ent == Head(entries)
           here ==
             IF ent.kind = "dir"
             THEN IF currentDepth > 0
                  THEN walk(ent.entries, Append(path, ent.name), currentDepth - 1)
                  ELSE <<>>
             ELSE IF ent.kind = "file"
             THEN <<[path |-> Append(path, ent.name), name |-> ent.name,
                     content |-> ent.content]>>
             ELSE <<>>
       IN here \o walk(Tail(entries), path, currentDepth)

\* a walk that descends one level further than its depth budget
walkFilesDeeper(dir, depth) == walk(dir.entries, <<dir.name>>, Max(0, depth) + 1)

\* ImportCommand.walkFiles(root, depth, onFile)
walkFiles(dir, depth) == walk(dir.entries, <<dir.name>>, Max(0, depth))

\* const maxDepth = Number.isFinite(options.maxDepth) ? options.maxDepth : 10
DefaultMaxDepth == 10
EffectiveMaxDepth(opts) ==
  IF opts.maxDepth.finite THEN opts.maxDepth.n ELSE DefaultMaxDepth

\* a count that walks each subdirectory with maxDepth in place of maxDepth - 1
countFilesFullDepth(entries, opts) ==
  LET IsRootFile(e) == e.kind = "file" /\ isSupportedFile(e.name)
      IsDir(e) == e.kind = "dir"
      Walked(e) == Len(SelectSeq(walkFiles(e, EffectiveMaxDepth(opts)),
                                 LAMBDA f : isSupportedFile(f.name)))
      dirs == SelectSeq(entries, IsDir)
      RECURSIVE Sum(_)
      Sum(ds) == IF ds = <<>> THEN 0 ELSE Walked(Head(ds)) + Sum(Tail(ds))
  IN Len(SelectSeq(entries, IsRootFile)) + Sum(dirs)

\* ImportCommand.countFiles
countFiles(entries, opts) ==
  LET IsRootFile(e) == e.kind = "file" /\ isSupportedFile(e.name)
      IsDir(e) == e.kind = "dir"
      Walked(e) == Len(SelectSeq(walkFiles(e, EffectiveMaxDepth(opts) - 1),
                                 LAMBDA f : isSupportedFile(f.name)))
      dirs == SelectSeq(entries, IsDir)
      RECURSIVE Sum(_)
      Sum(ds) == IF ds = <<>> THEN 0 ELSE Walked(Head(ds)) + Sum(Tail(ds))
  IN Len(SelectSeq(entries, IsRootFile)) + Sum(dirs)


(* ------------------ the remote store and BookStackClient ---------------- *)

\* the store holds books, chapters and pages as lists in creation order; the
\* server gives a new entity the next id of its kind and a slug made from
\* its name
SeqMax(ids) == IF ids = {} THEN 0 ELSE SetMax(ids)
NextId(rows) == SeqMax({rows[i].id : i \in 1..Len(rows)}) + 1

RECURSIVE DashSpaces(_)
\* s.replace(/\s+/g, '-')
DashSpaces(s) ==
  IF s = <<>> THEN <<>>
  ELSE IF Head(s) \in WhiteSpace THEN <<"-">> \o DashSpaces(TrimStart(s))
  ELSE <<Head(s)>> \o DashSpaces(Tail(s))

\* name.toLowerCase().replace(/\s+/g, '-')
SlugOf(name) == DashSpaces(ToLowerCase(name))

\* the first element of rows that satisfies Test, as an optional
Find(rows, Test(_)) ==
  IF \E i \in 1..Len(rows) : Test(rows[i])
  THEN Some(rows[SetMin({i \in 1..Len(rows) : Test(rows[i])})])
  ELSE None

\* BookStackClient.getBook: the book, or none when the request fails (404)
getBook(st, id) == Find(st.books, LAMBDA b : b.id = id)

\* a lookup that compares the slug alone, case and all, with the name asked for
findBookBySlugOnly(st, name) == Find(st.books, LAMBDA b : b.slug = name)

\* BookStackClient.findBookByName
findBookByName(st, name) ==
  Find(st.books, LAMBDA b : \/ ToLowerCase(b.name) = ToLowerCase(name)
                            \/ ToLowerCase(b.slug) = ToLowerCase(name))

\* BookStackClient.createBook: the row the server answers with
NewBook(st, name, description) ==
  [id |-> NextId(st.books), name |-> name, slug |-> SlugOf(name),
   description |-> description]

\* BookStackClient.updateBook
updateBook(st, id, description) ==
  [st EXCEPT !.books = [i \in 1..Len(st.books) |->
     IF st.books[i].id = id
     THEN [st.books[i] EXCEPT !.description = description]
     ELSE st.books[i]]]

\* a chapter listing that does not keep to the book asked for
getChaptersAnyBook(st, bookId) == st.chapters

\* BookStackClient.getChapters
getChapters(st, bookId) == SelectSeq(st.chapters, LAMBDA ch : ch.book_id = bookId)

\* BookStackClient.createChapter: the row the server answers with
NewChapter(st, bookId, name, description) ==
  [id |-> NextId(st.chapters), book_id |-> bookId, name |-> name,
   description |-> description]

\* BookStackClient.createPage: the row the server answers with
NewPage(st, pageData) ==
  [id |-> NextId(st.pages), book_id |-> pageData.book_id,
   chapter_id |-> pageData.chapter_id, name |-> pageData.name,
   html |-> pageData.html, markdown |-> pageData.markdown]

(* ---------------------- Remote Reconciler (import.ts) ------------------- *)

\* the placeholder getTargetBook returns in dry-run
MockBook(bookName) ==
  [id |-> 1, name |-> bookName, slug |-> SlugOf(bookName), description |-> None]

\* ImportCommand.getTargetBook past its dry-run return: by id when the name is
\* all digits, else (or on a miss) by name or slug, else a new book
FindOrCreateBook(st, bookName) ==
    LET numeric == IsAllDigits(bookName)
        byId == IF numeric THEN getBook(st, DigitsValue(bookName, 0)) ELSE None
        byName == IF byId = None THEN findBookByName(st, bookName) ELSE None
        found == IF byId # None THEN byId ELSE byName
        created == NewBook(st, bookName, Some(DefaultBookDescription))
        lookups == (IF numeric THEN <<"getBook">> ELSE <<>>)
                     \o (IF byId = None THEN <<"findBookByName">> ELSE <<>>)
    IN IF found # None
       THEN [book |-> Get(found), store |-> st, calls |-> lookups]
       ELSE [book |-> created,
             store |-> [st EXCEPT !.books = Append(@, created)],
             calls |-> Append(lookups, "createBook")]

\* a getTargetBook without its dry-run return
getTargetBookAlways(st, bookName, dryRun) == FindOrCreateBook(st, bookName)

\* ImportCommand.getTargetBook: the book returned, the store after the call
\* and the remote calls issued
getTargetBook(st, bookName, dryRun) ==
  IF dryRun THEN [book |-> MockBook(bookName), store |-> st, calls |-> <<>>]
  ELSE FindOrCreateBook(st, bookName)

\* the placeholder getOrCreateChapter returns in dry-run
MockChapter(bookId, name) ==
  [id |-> 1, book_id |-> bookId, name |-> name, description |-> None]

\* a getOrCreateChapter that matches the existing names case and all
getOrCreateChapterExact(st, bookId, name, description, dryRun) ==
  IF dryRun THEN [chapter |-> MockChapter(bookId, name), store |-> st, calls |-> <<>>]
  ELSE
    LET existing == getChapters(st, bookId)
        found == Find(existing, LAMBDA ch : ch.name = name)
        created == NewChapter(st, bookId, name, Some(description))
    IN IF found # None
       THEN [chapter |-> Get(found), store |-> st, calls |-> <<"getChapters">>]
       ELSE [chapter |-> created,
             store |-> [st EXCEPT !.chapters = Append(@, created)],
             calls |-> <<"getChapters", "createChapter">>]

\* ImportCommand.getOrCreateChapter: the chapter returned, the store after
\* the call and the remote calls issued
getOrCreateChapter(st, bookId, name, description, dryRun) ==
  IF dryRun THEN [chapter |-> MockChapter(bookId, name), store |-> st, calls |-> <<>>]
  ELSE
    LET existing == getChapters(st, bookId)
        found == Find(existing, LAMBDA ch : ToLowerCase(ch.name) = ToLowerCase(name))
        created == NewChapter(st, bookId, name, Some(description))
    IN IF found # None
       THEN [chapter |-> Get(found), store |-> st, calls |-> <<"getChapters">>]
       ELSE [chapter |-> created,
             store |-> [st EXCEPT !.chapters = Append(@, created)],
             calls |-> <<"getChapters", "createChapter">>]


\* how a request of the client fails: axios rejects with the response's
\* status (404, 401/403) or with no response at all
ErrorKinds == {"notFound", "auth", "network"}

\* the remote call that fails during one reconciler operation, if any
NoFault == None
Fails(fault, call) == fault # None /\ Get(fault).call = call

\* what a reconciler operation comes to: it returns (thrown is None) or
\* throws the error of the failing request
Returned(r, row) == [row |-> Some(row), store |-> r.store, calls |-> r.calls, thrown |-> None]
Thrown(st, issued, fault) ==
  [row |-> None, store |-> st, calls |-> issued, thrown |-> Some(Get(fault).kind)]

\* ImportCommand.getTargetBook when a request may fail: try { getBook } catch
\* {} swallows whatever getBook throws, and nothing else is caught
getTargetBookOutcome(st, bookName, dryRun, fault) ==
  LET clean == getTargetBook(st, bookName, dryRun)
      numeric == IsAllDigits(bookName)
      byId == IF numeric /\ ~Fails(fault, "getBook")
              THEN getBook(st, DigitsValue(bookName, 0)) ELSE None
      byName == IF byId = None THEN findBookByName(st, bookName) ELSE None
      found == IF byId # None THEN byId ELSE byName
      created == NewBook(st, bookName, Some(DefaultBookDescription))
      lookups == (IF numeric THEN <<"getBook">> ELSE <<>>)
                   \o (IF byId = None THEN <<"findBookByName">> ELSE <<>>)
  IN IF dryRun \/ fault = NoFault THEN Returned(clean, clean.book)
     ELSE IF byId = None /\ Fails(fault, "findBookByName")
     THEN Thrown(st, lookups, fault)
     ELSE IF found # None
     THEN [row |-> found, store |-> st, calls |-> lookups, thrown |-> None]
     ELSE IF Fails(fault, "createBook")
     THEN Thrown(st, Append(lookups, "createBook"), fault)
     ELSE [row |-> Some(created),
           store |-> [st EXCEPT !.books = Append(@, created)],
           calls |-> Append(lookups, "createBook"), thrown |-> None]

\* ImportCommand.getOrCreateChapter when a request may fail: nothing is caught
getOrCreateChapterOutcome(st, bookId, name, description, dryRun, fault) ==
  LET clean == getOrCreateChapter(st, bookId, name, description, dryRun)
  IN IF dryRun \/ fault = NoFault THEN Returned(clean, clean.chapter)
     ELSE IF Fails(fault, "getChapters")
     THEN Thrown(st, <<"getChapters">>, fault)
     ELSE IF Fails(fault, "createChapter") /\ "createChapter" \in Range(clean.calls)
     THEN Thrown(st, clean.calls, fault)
     ELSE Returned(clean, clean.chapter)


(* ------------------------ the import command (CLI) ---------------------- *)

VARIABLES
  fs,          \* the source path: a file, a directory tree, or missing
  args,        \* the flags given on the command line
  options,     \* the options bag handed to ImportCommand.execute
  store,       \* the remote store
  pc,          \* where the run is
  calls,       \* the remote calls issued so far, oldest first
  targetBook,  \* the book getTargetBook returned (optional)
  chapter,     \* the chapter of the subdirectory being walked (optional)
  total,       \* what countFiles returned
  current,     \* the progress bar's counter
  idx,         \* the loop index into the root directory's items
  queue,       \* the files the running walkFiles has yet to hand to onFile
  steps,       \* the page-creation steps done: created pages and dry-run lines
  naming,      \* per first-level subdirectory: the chapter name chosen and its sources
  error,       \* the error thrown out of execute (optional)
  reconciled   \* the calls made straight to the Remote Reconciler, oldest first

\* the state of the other commands, which an import leaves alone
VARIABLES
  quietEnabled, \* ui.ts: let quietEnabled
  stdout,       \* what console.log has written, oldest first
  xin,          \* export-contents: the command line and what the server holds
  xpc,          \* export-contents: where the run is
  xcalls,       \* export-contents: the client and file-system calls, oldest first
  dirs,         \* export-contents: the directories ensureDir made
  written,      \* export-contents: the files writeFile wrote
  xfiles,       \* export-contents: let files
  xi,           \* export-contents: the index into the pages being written
  xj,           \* export-contents: the index into the chapters
  cin,          \* resolveConfig: the flags, the config files and the .env files
  env,          \* process.env
  cpc,          \* resolveConfig: where the call is
  fileConf,     \* resolveConfig: const fileConf
  envConf,      \* resolveConfig: const envConf
  resolved,     \* resolveConfig: const resolved (optional)
  sin,          \* book show: the command line and what the server holds
  spc,          \* book show: where the run is
  stderr        \* what console.error and the spinners have written

VARIABLES
  runs,         \* import runs going on at once: where each is and what it has found
  consoleLogFn, \* what console.log is bound to
  origLog,      \* console._origLog (optional)
  uiCalls,      \* the configureUi calls made, oldest first
  cdisk,        \* config init: what is at the config path (optional)
  cwrites       \* config init: the fs.writeJson calls made, oldest first

importVars == <<fs, args, options, store, pc, calls, targetBook, chapter, total,
                current, idx, queue, steps, naming, error, reconciled>>

uiVars == <<quietEnabled, stdout>>

exportVars == <<xin, xpc, xcalls, dirs, written, xfiles, xi, xj>>

configVars == <<cin, env, cpc, fileConf, envConf, resolved>>

showVars == <<sin, spc, stderr>>

raceVars == <<runs>>

loggerVars == <<consoleLogFn, origLog, uiCalls>>

initVars == <<cdisk, cwrites>>

moreVars == <<raceVars, loggerVars, initVars>>

others == <<uiVars, exportVars, configVars, showVars, moreVars>>

vars == <<importVars, others>>

EmptyStore == [books |-> <<>>, chapters |-> <<>>, pages |-> <<>>]

FmtDir == <<"d", "i", "r">>
FmtReadme == <<"r", "e", "a", "d", "m", "e">>

\* the options commander builds for the import command: --format defaults to
\* 'markdown', --max-depth to 10 (parsed by parseInt when given),
\* --chapter-from to 'dir'
CliOptions(a) ==
  [book |-> a.book,
   format |-> IF a.format = None THEN Some(FmtMarkdown) ELSE a.format,
   maxDepth |-> IF a.maxDepth = None THEN Num(DefaultMaxDepth)
                ELSE ParseInt(Get(a.maxDepth)),
   chapterFrom |-> IF a.chapterFrom = None THEN Some(FmtDir) ELSE a.chapterFrom,
   flatten |-> a.flatten,
   dryRun |-> a.dryRun]

NoOptions ==
  [book |-> None, format |-> None, maxDepth |-> NaN, chapterFrom |-> None,
   flatten |-> FALSE, dryRun |-> FALSE]

\* the import command's action up to the call of execute
CliImport ==
  /\ pc = "cli"
  /\ options' = CliOptions(args)
  /\ pc' = "execute"
  /\ UNCHANGED <<others, reconciled, fs, args, store, calls, targetBook, chapter, total, current,
                 idx, queue, steps, naming, error>>

\* an execute that goes to the source without testing the connection
ExecuteStartUntested ==
  /\ pc = "execute"
  /\ pc' = "stat"
  /\ UNCHANGED <<others, reconciled, fs, args, options, store, calls, targetBook, chapter, total,
                 current, idx, queue, steps, naming, error>>

\* execute, up to the connection test: skipped in dry-run
ExecuteStart ==
  /\ pc = "execute"
  /\ pc' = IF options.dryRun THEN "stat" ELSE "connect"
  /\ UNCHANGED <<others, reconciled, fs, args, options, store, calls, targetBook, chapter, total,
                 current, idx, queue, steps, naming, error>>

\* await this.client.testConnection(): true, or false when the request fails
TestConnection ==
  /\ pc = "connect"
  /\ calls' = Append(calls, "testConnection")
  /\ \E connected \in BOOLEAN :
       IF connected
       THEN pc' = "stat" /\ error' = error
       ELSE pc' = "catch" /\ error' = Some("Failed to connect to BookStack")
  /\ UNCHANGED <<others, reconciled, fs, args, options, store, targetBook, chapter, total, current,
                 idx, queue, steps, naming>>

\* fs.pathExists and fs.stat of the source
StatSource ==
  /\ pc = "stat"
  /\ IF fs.kind = "missing"
     THEN pc' = "catch" /\ error' = Some("Source path does not exist")
     ELSE IF fs.kind = "file" THEN pc' = "importFile" /\ error' = error
     ELSE IF fs.kind = "dir" THEN pc' = "importDirectory" /\ error' = error
     ELSE pc' = "catch" /\ error' = Some("Source must be a file or directory")
  /\ UNCHANGED <<others, reconciled, fs, args, options, store, calls, targetBook, chapter, total,
                 current, idx, queue, steps, naming>>


\* the pageData of createPageInBook / createPageInChapter: the format is the
\* one given, else the one detected from the file name
PageData(bookId, chapterId, displayName, content, opts) ==
  LET fmt == Get(OrElse(opts.format, Some(detectFormat(displayName))))
  IN [book_id |-> bookId, chapter_id |-> chapterId,
      name |-> BaseName(displayName, ExtName(displayName)),
      html |-> PageBody(content, fmt).html,
      markdown |-> PageBody(content, fmt).markdown]

\* the pageData of importFile
FilePageData(bookId, fileName, content, opts) ==
  [book_id |-> bookId, chapter_id |-> None, name |-> fileName,
   html |-> convertToHtml(content, Get(OrElse(opts.format, Some(FmtMarkdown)))),
   markdown |-> IF opts.format = Some(FmtMarkdown) THEN Some(content) ELSE None]

\* a bar that moves two places at each tick
TickTwice(cur, tot) == IF cur + 2 > tot THEN tot ELSE cur + 2

\* bar.tick(1) of createProgressBar
Tick(cur, tot) == IF cur + 1 > tot THEN tot ELSE cur + 1

\* a createPage error that is swallowed, the loop going on to the next file
OnCreatePageErrorSkip(pcNext) == pcNext

\* what a thrown createPage error does to the run: it leaves the loop and
\* execute, to the catch of the command's action
OnCreatePageError(pcNext) == "catch"

\* the end of a page-creation step: in dry-run the 'Would create page' line,
\* else await this.client.createPage(pageData), which answers (ok) or throws
CreatePageStep(pd, path, content, ok, pcNext) ==
  IF options.dryRun
  THEN /\ steps' = Append(steps, [path |-> path, content |-> content, page |-> pd,
                                  simulated |-> TRUE])
       /\ pc' = pcNext
       /\ UNCHANGED <<store, calls, error>>
  ELSE /\ calls' = Append(calls, "createPage")
       /\ IF ok
          THEN /\ store' = [store EXCEPT !.pages = Append(@, NewPage(store, pd))]
               /\ steps' = Append(steps, [path |-> path, content |-> content,
                                          page |-> pd, simulated |-> FALSE])
               /\ pc' = pcNext
               /\ error' = error
          ELSE /\ pc' = OnCreatePageError(pcNext)
               /\ error' = IF OnCreatePageError(pcNext) = "catch"
                           THEN Some("createPage failed") ELSE error
               /\ UNCHANGED <<store, steps>>

\* importFile, up to and including getTargetBook
ImportFileBook ==
  /\ pc = "importFile"
  /\ LET fileName == BaseName(fs.name, ExtName(fs.name))
         r == getTargetBook(store, Get(OrElse(options.book, Some(fileName))),
                            options.dryRun)
     IN /\ targetBook' = Some(r.book)
        /\ store' = r.store
        /\ calls' = calls \o r.calls
  /\ pc' = "importFilePage"
  /\ UNCHANGED <<others, reconciled, fs, args, options, chapter, total, current, idx, queue, steps,
                 naming, error>>

\* an importFile that names the page by the file name, extension and all
ImportFilePageFullName ==
  /\ pc = "importFilePage"
  /\ \E ok \in BOOLEAN :
       CreatePageStep(FilePageData(Get(targetBook).id, fs.name, fs.content, options),
                      <<fs.name>>, fs.content, ok, "completed")
  /\ UNCHANGED <<others, reconciled, fs, args, options, targetBook, chapter, total, current, idx,
                 queue, naming>>

\* importFile, from the pageData on
ImportFilePage ==
  /\ pc = "importFilePage"
  /\ \E ok \in BOOLEAN :
       CreatePageStep(FilePageData(Get(targetBook).id,
                                   BaseName(fs.name, ExtName(fs.name)),
                                   fs.content, options),
                      <<fs.name>>, fs.content, ok, "completed")
  /\ UNCHANGED <<others, reconciled, fs, args, options, targetBook, chapter, total, current, idx,
                 queue, naming>>

\* const bookName = options.book || bookMeta.name || path.basename(dirPath)
BookName(opts, bookMeta, dirName) ==
  Get(OrElse(OrElse(opts.book, bookMeta.name), Some(dirName)))

\* importDirectory, up to and including getTargetBook
ResolveBook ==
  /\ pc = "importDirectory"
  /\ LET bookMeta == readBookMetadata(fs.entries)
         r == getTargetBook(store, BookName(options, bookMeta, fs.name),
                            options.dryRun)
     IN /\ targetBook' = Some(r.book)
        /\ store' = r.store
        /\ calls' = calls \o r.calls
        /\ stderr' = consoleWarn(stderr, bookMeta.warned, <<BookMetaFile>>)
        /\ pc' = IF ~options.dryRun /\ Truthy(bookMeta.description)
                 THEN "updateBook" ELSE "count"
  /\ UNCHANGED <<moreVars, uiVars, exportVars, configVars, sin, spc, reconciled, fs, args, options, chapter,
                 total, current, idx, queue, steps, naming, error>>

\* an updateBook whose failure is thrown on to the command's catch
UpdateBookFatal ==
  /\ pc = "updateBook"
  /\ calls' = Append(calls, "updateBook")
  /\ \E ok \in BOOLEAN :
       IF ok
       THEN /\ store' = updateBook(store, Get(targetBook).id,
                                   readBookMetadata(fs.entries).description)
            /\ pc' = "count"
            /\ error' = error
       ELSE /\ store' = store
            /\ pc' = "catch"
            /\ error' = Some("updateBook failed")
  /\ UNCHANGED <<others, reconciled, fs, args, options, targetBook, chapter, total, current, idx,
                 queue, steps, naming>>

\* try { await this.client.updateBook(targetBook.id, {description}) } catch {}
UpdateBook ==
  /\ pc = "updateBook"
  /\ calls' = Append(calls, "updateBook")
  /\ \E ok \in BOOLEAN :
       store' = IF ok
                THEN updateBook(store, Get(targetBook).id,
                                readBookMetadata(fs.entries).description)
                ELSE store
  /\ pc' = "count"
  /\ UNCHANGED <<others, reconciled, fs, args, options, targetBook, chapter, total, current, idx,
                 queue, steps, naming, error>>

\* a count pass that asks the server for the book's pages as it goes
CountFilesRemote ==
  /\ pc = "count"
  /\ total' = countFiles(fs.entries, options)
  /\ current' = 0
  /\ idx' = 1
  /\ pc' = "rootFiles"
  /\ calls' = Append(calls, "getBook")
  /\ UNCHANGED <<others, reconciled, fs, args, options, store, targetBook, chapter, queue,
                 steps, naming, error>>

\* const total = await this.countFiles(dirPath, options); the bar starts at 0
CountFiles ==
  /\ pc = "count"
  /\ total' = countFiles(fs.entries, options)
  /\ current' = 0
  /\ idx' = 1
  /\ pc' = "rootFiles"
  /\ UNCHANGED <<others, reconciled, fs, args, options, store, calls, targetBook, chapter, queue,
                 steps, naming, error>>

\* one iteration of the first loop over items: a supported file of the root
\* becomes a page of the book
RootItem ==
  /\ pc = "rootFiles"
  /\ idx <= Len(fs.entries)
  /\ LET item == fs.entries[idx]
     IN IF item.kind = "file" /\ isSupportedFile(item.name)
        THEN \E ok \in BOOLEAN :
               /\ CreatePageStep(PageData(Get(targetBook).id, None, item.name,
                                          item.content, options),
                                 <<item.name>>, item.content, ok, "rootFiles")
               /\ current' = IF pc' = "rootFiles" THEN Tick(current, total) ELSE current
        ELSE UNCHANGED <<store, calls, steps, error, pc, current>>
  /\ idx' = idx + 1
  /\ UNCHANGED <<others, reconciled, fs, args, options, targetBook, chapter, total, queue, naming>>

\* the first loop is over: the second loop starts
RootDone ==
  /\ pc = "rootFiles"
  /\ idx > Len(fs.entries)
  /\ idx' = 1
  /\ pc' = "subdirs"
  /\ UNCHANGED <<others, reconciled, fs, args, options, store, calls, targetBook, chapter, total,
                 current, queue, steps, naming, error>>


\* a flatten option that is never honoured
FlattenOff(opts) == FALSE

\* const flatten = !!options.flatten
Flatten(opts) == opts.flatten

\* const chapterFrom = (options.chapterFrom || 'dir')
ChapterFrom(opts) == Get(OrElse(opts.chapterFrom, Some(FmtDir)))

\* a naming that prefers the README over the metadata name
ChapterNamingReadmeFirst(entries, item, opts) ==
  LET chapterMeta == readChapterMetadata(entries)
      derived == deriveNameFromReadme(entries)
  IN IF ChapterFrom(opts) = FmtReadme /\ Truthy(derived)
     THEN [dir |-> item, name |-> Get(derived), readmeRead |-> TRUE]
     ELSE [dir |-> item, name |-> Get(OrElse(chapterMeta.name, Some(item))),
           readmeRead |-> ChapterFrom(opts) = FmtReadme]

\* the chapter name of a first-level subdirectory: the metadata name, else
\* (chapterFrom = 'readme') the README-derived name, else the directory name;
\* readmeRead tells whether deriveNameFromReadme was called
ChapterNaming(entries, item, opts) ==
  LET chapterMeta == readChapterMetadata(entries)
  IN IF Truthy(chapterMeta.name)
     THEN [dir |-> item, name |-> Get(chapterMeta.name), readmeRead |-> FALSE]
     ELSE IF ChapterFrom(opts) = FmtReadme
     THEN [dir |-> item,
           name |-> Get(OrElse(deriveNameFromReadme(entries), Some(item))),
           readmeRead |-> TRUE]
     ELSE [dir |-> item, name |-> item, readmeRead |-> FALSE]

\* the files onFile goes on to make pages of: the callback returns at once
\* for an unsupported file
Importable(files) == SelectSeq(files, LAMBDA f : isSupportedFile(f.name))

\* a second loop that walks a subdirectory before asking the server for its
\* chapter, the pages going out with the placeholder's id
SubdirItemUnreconciled ==
  /\ pc = "subdirs"
  /\ idx <= Len(fs.entries)
  /\ LET item == fs.entries[idx]
         chapterMeta == readChapterMetadata(item.entries)
         nm == ChapterNaming(item.entries, item.name, options)
         r == getOrCreateChapter(store, Get(targetBook).id, nm.name,
                                 Get(OrElse(chapterMeta.description, Some(<<>>))),
                                 TRUE)
         files == walkFiles(item, EffectiveMaxDepth(options) - 1)
     IN IF item.kind # "dir"
        THEN /\ idx' = idx + 1
             /\ UNCHANGED <<store, calls, chapter, queue, naming, pc, stderr>>
        ELSE IF Flatten(options)
        THEN /\ chapter' = None
             /\ queue' = Importable(files)
             /\ pc' = "walk"
             /\ UNCHANGED <<store, calls, naming, idx, stderr>>
        ELSE /\ stderr' = consoleWarn(stderr, chapterMeta.warned,
                                      <<item.name, ChapterMetaFile>>)
             /\ store' = r.store
             /\ calls' = calls \o r.calls
             /\ chapter' = Some(r.chapter)
             /\ naming' = Append(naming, [dir |-> nm.dir, name |-> nm.name,
                                          readmeRead |-> nm.readmeRead,
                                          chapter_id |-> r.chapter.id])
             /\ queue' = Importable(files)
             /\ pc' = "walk"
             /\ idx' = idx
  /\ UNCHANGED <<moreVars, uiVars, exportVars, configVars, sin, spc, reconciled, fs, args, options,
                 targetBook, total, current, steps, error>>

\* one iteration of the second loop over items: a first-level subdirectory is
\* flattened into the book, or gets its chapter, and its walk starts
SubdirItem ==
  /\ pc = "subdirs"
  /\ idx <= Len(fs.entries)
  /\ LET item == fs.entries[idx]
         chapterMeta == readChapterMetadata(item.entries)
         nm == ChapterNaming(item.entries, item.name, options)
         r == getOrCreateChapter(store, Get(targetBook).id, nm.name,
                                 Get(OrElse(chapterMeta.description, Some(<<>>))),
                                 options.dryRun)
         files == walkFiles(item, EffectiveMaxDepth(options) - 1)
     IN IF item.kind # "dir"
        THEN /\ idx' = idx + 1
             /\ UNCHANGED <<store, calls, chapter, queue, naming, pc, stderr>>
        ELSE IF Flatten(options)
        THEN /\ chapter' = None
             /\ queue' = Importable(files)
             /\ pc' = "walk"
             /\ UNCHANGED <<store, calls, naming, idx, stderr>>
        ELSE /\ stderr' = consoleWarn(stderr, chapterMeta.warned,
                                      <<item.name, ChapterMetaFile>>)
             /\ store' = r.store
             /\ calls' = calls \o r.calls
             /\ chapter' = Some(r.chapter)
             /\ naming' = Append(naming, [dir |-> nm.dir, name |-> nm.name,
                                          readmeRead |-> nm.readmeRead,
                                          chapter_id |-> r.chapter.id])
             /\ queue' = Importable(files)
             /\ pc' = "walk"
             /\ idx' = idx
  /\ UNCHANGED <<moreVars, uiVars, exportVars, configVars, sin, spc, reconciled, fs, args, options,
                 targetBook, total, current, steps, error>>

\* onFile for the next supported file of the walk: a page of the chapter, or
\* of the book when flattening
WalkFile ==
  /\ pc = "walk"
  /\ queue # <<>>
  /\ LET f == Head(queue)
     IN \E ok \in BOOLEAN :
          /\ CreatePageStep(PageData(Get(targetBook).id,
                                     IF chapter = None THEN None
                                     ELSE Some(Get(chapter).id),
                                     f.name, f.content, options),
                            f.path, f.content, ok, "walk")
          /\ current' = IF pc' = "walk" THEN Tick(current, total) ELSE current
  /\ queue' = Tail(queue)
  /\ UNCHANGED <<others, reconciled, fs, args, options, targetBook, chapter, total, idx, naming>>

\* walkFiles returns: the second loop goes on with the next item
WalkDone ==
  /\ pc = "walk"
  /\ queue = <<>>
  /\ idx' = idx + 1
  /\ chapter' = None
  /\ pc' = "subdirs"
  /\ UNCHANGED <<others, reconciled, fs, args, options, store, calls, targetBook, total, current,
                 queue, steps, naming, error>>

\* the second loop is over: bar.stop, and importDirectory returns
SubdirsDone ==
  /\ pc = "subdirs"
  /\ idx > Len(fs.entries)
  /\ pc' = "completed"
  /\ UNCHANGED <<others, reconciled, fs, args, options, store, calls, targetBook, chapter, total,
                 current, idx, queue, steps, naming, error>>

\* console.log('Import completed!'): execute returns, the action ends
Complete ==
  /\ pc = "completed"
  /\ pc' = "done"
  /\ UNCHANGED <<others, reconciled, fs, args, options, store, calls, targetBook, chapter, total,
                 current, idx, queue, steps, naming, error>>

\* catch (error) { handleAxiosError(error) }: the message, then process.exit(1)
HandleError ==
  /\ pc = "catch"
  /\ pc' = "exit1"
  /\ UNCHANGED <<others, reconciled, fs, args, options, store, calls, targetBook, chapter, total,
                 current, idx, queue, steps, naming, error>>


(* ------------------------- ui.ts: console output ------------------------ *)

\* a configureUi that saves whatever console.log is at each quiet call
SaveOrigLogAlways(orig, logFn) == Some(logFn)

\* (console as any)._origLog || console.log: a function is never falsy
SaveOrigLog(orig, logFn) == IF orig # None THEN orig ELSE Some(logFn)

\* configureUi({ quiet }): quiet replaces console.log by a function that
\* does nothing, and not quiet puts the original back
configureUi(quiet) == quiet

\* console.log(line) after configureUi
consoleLog(out, quiet, line) == IF quiet THEN out ELSE Append(out, line)

(* --------------------- book export-contents (CLI) ----------------------- *)

UpperLetters ==
  {"A", "B", "C", "D", "E", "F", "G", "H", "I", "J", "K", "L", "M",
   "N", "O", "P", "Q", "R", "S", "T", "U", "V", "W", "X", "Y", "Z"}

\* the class [a-zA-Z0-9-_.\s] of sanitize
SanitizeKeeps ==
  UpperLetters \cup {LowerChar(ch) : ch \in UpperLetters} \cup Digits
    \cup {"-", "_", "."} \cup WhiteSpace

\* String.prototype.normalize('NFKD') of one character: a letter with an
\* accent becomes the letter and the combining accent (here e-acute, written
\* E-ACUTE, and the combining acute accent, written ACUTE)
Nfkd(ch) == IF ch = "E-ACUTE" THEN <<"e", "ACUTE">> ELSE <<ch>>

RECURSIVE Flat(_)
\* the concatenation of a sequence of sequences, by halves
Flat(ss) ==
  IF Len(ss) = 0 THEN <<>>
  ELSE IF Len(ss) = 1 THEN ss[1]
  ELSE Flat(SubSeq(ss, 1, Len(ss) \div 2)) \o Flat(SubSeq(ss, Len(ss) \div 2 + 1, Len(ss)))

\* .replace(/\s+/g, '-'): each run of whitespace becomes one hyphen
DashRuns(s) ==
  Flat([i \in 1..Len(s) |->
          IF s[i] \notin WhiteSpace THEN <<s[i]>>
          ELSE IF i > 1 /\ s[i - 1] \in WhiteSpace THEN <<>> ELSE <<"-">>])

\* .slice(0, 100)
SanitizeMaxLen == 100

\* a sanitize that trims and lowers the name and takes nothing out of it
sanitizeLax(name) == ToLowerCase(Trim(name))

\* sanitize(input)
sanitize(input) ==
  LET normalized == Flat([i \in 1..Len(input) |-> Nfkd(input[i])])
      kept == SelectSeq(normalized, LAMBDA ch : ch \in SanitizeKeeps)
      lowered == ToLowerCase(DashRuns(Trim(kept)))
  IN SubSeq(lowered, 1, Min(Len(lowered), SanitizeMaxLen))

RECURSIVE Decimal(_)
\* the decimal text of a number, as a template literal writes it
Decimal(n) == IF n < 10 THEN <<DigitChar(n)>> ELSE Decimal(n \div 10) \o <<DigitChar(n % 10)>>

FmtPlaintext == <<"p", "l", "a", "i", "n", "t", "e", "x", "t">>
ExportFormats == {FmtMarkdown, FmtHtml, FmtPlaintext}

\* const ext = fmt === 'plaintext' ? 'txt' : fmt === 'markdown' ? 'md' : 'html'
ExtOf(fmt) ==
  IF fmt = FmtPlaintext THEN <<"t", "x", "t">>
  ELSE IF fmt = FmtMarkdown THEN <<"m", "d">> ELSE <<"h", "t", "m", "l">>

\* a file name that leaves the id out
PageFileNameNoId(p, ext) ==
  sanitize(Get(OrElse(p.slug, Some(p.name)))) \o <<".">> \o ext

\* `${sanitize(p.slug || p.name)}-${p.id}.${ext}`
PageFileName(p, ext) ==
  sanitize(Get(OrElse(p.slug, Some(p.name)))) \o <<"-">> \o Decimal(p.id) \o <<".">> \o ext

\* `${sanitize(ch.slug || ch.name)}-${ch.id}`
ChapterDirName(ch) ==
  sanitize(Get(OrElse(ch.slug, Some(ch.name)))) \o <<"-">> \o Decimal(ch.id)

\* book.slug || `book-${bookId}`, then opts.dir || `./${slug}`
OutRoot(dir, book) ==
  LET slug == IF book.slug # <<>> THEN book.slug
              ELSE <<"b", "o", "o", "k", "-">> \o Decimal(book.id)
  IN Get(OrElse(dir, Some(<<".", "/">> \o slug)))

\* the separators path.join splits its arguments at
PathSeparators == {"/", "\\"}

\* the components of one argument of path.join
RECURSIVE SplitPathFrom(_, _)
SplitPathFrom(t, i) ==
  LET seps == {j \in i..Len(t) : t[j] \in PathSeparators}
  IN IF seps = {} THEN <<SubSeq(t, i, Len(t))>>
     ELSE <<SubSeq(t, i, SetMin(seps) - 1)>> \o SplitPathFrom(t, SetMin(seps) + 1)

DotDot == <<".", ".">>

\* path.normalize over components: empty and '.' components drop out, '..'
\* takes the component before it away
RECURSIVE NormalizeFrom(_, _)
NormalizeFrom(done, rest) ==
  IF rest = <<>> THEN done
  ELSE LET c == Head(rest)
       IN IF c = <<>> \/ c = <<".">> THEN NormalizeFrom(done, Tail(rest))
          ELSE IF c = DotDot /\ done # <<>> /\ done[Len(done)] # DotDot
          THEN NormalizeFrom(SubSeq(done, 1, Len(done) - 1), Tail(rest))
          ELSE NormalizeFrom(Append(done, c), Tail(rest))

RECURSIVE SplitAll(_)
SplitAll(parts) ==
  IF parts = <<>> THEN <<>> ELSE SplitPathFrom(Head(parts), 1) \o SplitAll(Tail(parts))

\* require("path").join(...parts): where the path leads
pathJoin(parts) == NormalizeFrom(<<>>, SplitAll(parts))

\* contents.filter(c => c.type === 'chapter') and contents.filter(p => p.type === 'page')
ContentsOfType(book, type) == SelectSeq(book.contents, LAMBDA c : c.type = type)

\* Array.isArray(ch.pages) ? ch.pages : []
ChapterPages(ch) == IF ch.pages = None THEN <<>> ELSE Get(ch.pages)

RECURSIVE SumPages(_)
SumPages(chs) ==
  IF chs = <<>> THEN 0 ELSE Len(ChapterPages(Head(chs))) + SumPages(Tail(chs))

\* const total = pages.length + chapters.reduce(...)
ExportTotal(book) ==
  Len(ContentsOfType(book, "page")) + SumPages(ContentsOfType(book, "chapter"))

\* BookStackClient.exportPage: the text the server renders for a page
exportPage(id, fmt) == [page |-> id, format |-> fmt]

\* resolveBookId: the id itself when the argument is all digits, else the id
\* of the book findBookByName finds, else null
resolveBookId(st, bookArg) ==
  IF IsAllDigits(bookArg) THEN [id |-> Some(DigitsValue(bookArg, 0)), calls |-> <<>>]
  ELSE LET found == findBookByName(st, bookArg)
       IN [id |-> IF found = None THEN None ELSE Some(Get(found).id),
           calls |-> <<"findBookByName">>]

\* the book the run is exporting, once getBook has answered
ExportBook == Get(getBook(xin.server, Get(resolveBookId(xin.server, xin.bookArg).id)))
ExportFmt == ToLowerCase(xin.format)
ExportRoot == OutRoot(xin.dir, ExportBook)

\* the action up to resolveBookId: Book not found ends the process
ExportResolve ==
  /\ xpc = "cli"
  /\ quietEnabled' = configureUi(xin.quiet)
  /\ LET r == resolveBookId(xin.server, xin.bookArg)
     IN /\ xcalls' = xcalls \o r.calls
        /\ xpc' = IF r.id = None THEN "exit1" ELSE "getBook"
  /\ UNCHANGED <<moreVars, showVars, configVars, importVars, stdout, xin, dirs, written, xfiles, xi, xj>>

\* getBook, the format check, the root directory and the first line
ExportPrepare ==
  /\ xpc = "getBook"
  /\ xcalls' = xcalls \o <<"getBook">>
            \o (IF /\ getBook(xin.server, Get(resolveBookId(xin.server, xin.bookArg).id)) # None
                   /\ ExportFmt \in ExportFormats
                   /\ ~xin.dryRun
                THEN <<"ensureDir">> ELSE <<>>)
  /\ IF getBook(xin.server, Get(resolveBookId(xin.server, xin.bookArg).id)) = None
     THEN xpc' = "catch" /\ UNCHANGED <<dirs, stdout>>
     ELSE IF ExportFmt \notin ExportFormats
     THEN xpc' = "exit1" /\ UNCHANGED <<dirs, stdout>>
     ELSE /\ dirs' = IF xin.dryRun THEN dirs ELSE dirs \cup {<<ExportRoot>>}
          /\ stdout' = consoleLog(stdout, quietEnabled,
                                  [line |-> "Exporting to", path |-> <<ExportRoot>>,
                                   dryRun |-> xin.dryRun])
          /\ xpc' = "pages"
  /\ UNCHANGED <<moreVars, showVars, configVars, importVars, quietEnabled, xin, written, xfiles, xi, xj>>

\* one turn of a page loop: the Would write line, or exportPage (which
\* answers or throws) and writeFile
WritePage(p, dir, pcNext) ==
  LET outPath == Append(dir, PageFileName(p, ExtOf(ExportFmt)))
  IN IF xin.dryRun
     THEN /\ stdout' = consoleLog(stdout, quietEnabled,
                                  [line |-> "Would write", path |-> outPath,
                                   dryRun |-> TRUE])
          /\ xfiles' = xfiles + 1
          /\ xpc' = pcNext
          /\ UNCHANGED <<xcalls, written>>
     ELSE \E ok \in BOOLEAN :
            IF ok
            THEN /\ xcalls' = xcalls \o <<"exportPage", "writeFile">>
                 /\ written' = {w \in written : w.path # outPath}
                                 \cup {[path |-> outPath, page |-> p.id,
                                        text |-> exportPage(p.id, ExportFmt)]}
                 /\ xfiles' = xfiles + 1
                 /\ xpc' = pcNext
                 /\ UNCHANGED stdout
            ELSE /\ xcalls' = Append(xcalls, "exportPage")
                 /\ xpc' = "catch"
                 /\ UNCHANGED <<written, xfiles, stdout>>

\* for (const p of pages): the top-level pages
ExportTopPage ==
  /\ xpc = "pages"
  /\ xi <= Len(ContentsOfType(ExportBook, "page"))
  /\ WritePage(ContentsOfType(ExportBook, "page")[xi], <<ExportRoot>>, "pages")
  /\ xi' = xi + 1
  /\ UNCHANGED <<moreVars, showVars, configVars, importVars, quietEnabled, xin, dirs, xj>>

ExportTopPagesDone ==
  /\ xpc = "pages"
  /\ xi > Len(ContentsOfType(ExportBook, "page"))
  /\ xpc' = "chapters"
  /\ xj' = 1
  /\ UNCHANGED <<moreVars, showVars, configVars, importVars, uiVars, xin, xcalls, dirs, written, xfiles, xi>>

\* a chapter step that makes the directory in dry-run too
ExportChapterDirAlways ==
  /\ xpc = "chapters"
  /\ xj <= Len(ContentsOfType(ExportBook, "chapter"))
  /\ xcalls' = Append(xcalls, "ensureDir")
  /\ dirs' = dirs \cup {<<ExportRoot,
                           ChapterDirName(ContentsOfType(ExportBook, "chapter")[xj])>>}
  /\ xi' = 1
  /\ xpc' = "chapterPages"
  /\ UNCHANGED <<moreVars, showVars, configVars, importVars, uiVars, xin, written, xfiles, xj>>

\* for (const ch of chapters): the chapter's directory
ExportChapterDir ==
  /\ xpc = "chapters"
  /\ xj <= Len(ContentsOfType(ExportBook, "chapter"))
  /\ LET ch == ContentsOfType(ExportBook, "chapter")[xj]
         chDir == <<ExportRoot, ChapterDirName(ch)>>
     IN IF xin.dryRun
        THEN /\ stdout' = consoleLog(stdout, quietEnabled,
                                     [line |-> "Would ensure dir", path |-> chDir,
                                      dryRun |-> TRUE])
             /\ UNCHANGED <<xcalls, dirs>>
        ELSE /\ xcalls' = Append(xcalls, "ensureDir")
             /\ dirs' = dirs \cup {chDir}
             /\ UNCHANGED stdout
  /\ xi' = 1
  /\ xpc' = "chapterPages"
  /\ UNCHANGED <<moreVars, showVars, configVars, importVars, quietEnabled, xin, written, xfiles, xj>>

\* for (const p of chPages): the pages of the chapter
ExportChapterPage ==
  /\ xpc = "chapterPages"
  /\ LET ch == ContentsOfType(ExportBook, "chapter")[xj]
     IN /\ xi <= Len(ChapterPages(ch))
        /\ WritePage(ChapterPages(ch)[xi], <<ExportRoot, ChapterDirName(ch)>>,
                     "chapterPages")
  /\ xi' = xi + 1
  /\ UNCHANGED <<moreVars, showVars, configVars, importVars, quietEnabled, xin, dirs, xj>>

ExportChapterDone ==
  /\ xpc = "chapterPages"
  /\ xi > Len(ChapterPages(ContentsOfType(ExportBook, "chapter")[xj]))
  /\ xj' = xj + 1
  /\ xpc' = "chapters"
  /\ UNCHANGED <<moreVars, showVars, configVars, importVars, uiVars, xin, xcalls, dirs, written, xfiles, xi>>

\* bar.stop and the summary line
ExportSummary ==
  /\ xpc = "chapters"
  /\ xj > Len(ContentsOfType(ExportBook, "chapter"))
  /\ stdout' = consoleLog(stdout, quietEnabled,
                          [line |-> IF xin.dryRun THEN "Dry-run summary" ELSE "Wrote",
                           files |-> xfiles, path |-> <<ExportRoot>>,
                           dryRun |-> xin.dryRun])
  /\ xpc' = "done"
  /\ UNCHANGED <<moreVars, showVars, configVars, importVars, quietEnabled, xin, xcalls, dirs, written, xfiles, xi, xj>>

\* catch (error) { handleAxiosError(error) }
ExportHandleError ==
  /\ xpc = "catch"
  /\ xpc' = "exit1"
  /\ UNCHANGED <<moreVars, showVars, configVars, importVars, uiVars, xin, xcalls, dirs, written, xfiles, xi, xj>>

\* no export-contents is running
ExportIdle ==
  /\ xin = [server |-> [books |-> <<>>], bookArg |-> <<>>, dir |-> None,
            format |-> FmtMarkdown, dryRun |-> FALSE, quiet |-> FALSE]
  /\ xpc = "idle"
  /\ xcalls = <<>>
  /\ dirs = {}
  /\ written = {}
  /\ xfiles = 0
  /\ xi = 1
  /\ xj = 1

UiIdle == quietEnabled = FALSE /\ stdout = <<>>

(* ------------------------- config.ts: resolveConfig --------------------- *)

SEARCH_FILENAMES ==
  <<<<"b", "o", "o", "k", "s", "t", "a", "c", "k", "-", "c", "o", "n", "f", "i", "g", ".", "j", "s", "o", "n">>,
    <<"b", "o", "o", "k", "s", "t", "a", "c", "k", ".", "c", "o", "n", "f", "i", "g", ".", "j", "s", "o", "n">>,
    <<"b", "o", "o", "k", "s", "t", "a", "c", "k", ".", "c", "o", "n", "f", "i", "g", ".", "y", "a", "m", "l">>,
    <<"b", "o", "o", "k", "s", "t", "a", "c", "k", ".", "c", "o", "n", "f", "i", "g", ".", "y", "m", "l">>,
    <<"b", "o", "o", "k", "s", "t", "a", "c", "k", ".", "c", "o", "n", "f", "i", "g", ".", "t", "o", "m", "l">>,
    <<".", "b", "o", "o", "k", "s", "t", "a", "c", "k", "r", "c">>,
    <<".", "b", "o", "o", "k", "s", "t", "a", "c", "k", "r", "c", ".", "j", "s", "o", "n">>,
    <<".", "b", "o", "o", "k", "s", "t", "a", "c", "k", "r", "c", ".", "y", "a", "m", "l">>,
    <<".", "b", "o", "o", "k", "s", "t", "a", "c", "k", "r", "c", ".", "y", "m", "l">>,
    <<".", "b", "o", "o", "k", "s", "t", "a", "c", "k", "r", "c", ".", "t", "o", "m", "l">>,
    <<"p", "a", "c", "k", "a", "g", "e", ".", "j", "s", "o", "n">>>>

PackageJson == <<"p", "a", "c", "k", "a", "g", "e", ".", "j", "s", "o", "n">>
ExtJson == <<".", "j", "s", "o", "n">>
ExtYaml == <<".", "y", "a", "m", "l">>
ExtYml == <<".", "y", "m", "l">>
ExtToml == <<".", "t", "o", "m", "l">>

\* the keys normalize reads
RawKeys == {"url", "baseUrl", "base_url", "tokenId", "token_id", "tokenSecret",
            "token_secret"}

EmptyObject == [k \in RawKeys |-> None]
EmptyConfig == [url |-> None, tokenId |-> None, tokenSecret |-> None, source |-> None]

\* normalize(obj): the first truthy of the keys of each field
normalize(obj) ==
  IF obj = None THEN EmptyConfig
  ELSE LET get(k) == Get(obj)[k]
       IN [url |-> OrElse(get("url"), OrElse(get("baseUrl"), get("base_url"))),
           tokenId |-> OrElse(get("tokenId"), get("token_id")),
           tokenSecret |-> OrElse(get("tokenSecret"), get("token_secret")),
           source |-> None]

\* readConfigFile(filePath): the config of the file; threw tells a parse
\* error.  A file holds, when it parses, the object of its top level and,
\* for package.json, the objects of its fields bookstack and bookstack-cli
readConfigFile(file) ==
  LET ext == ToLowerCase(ExtName(file.name))
      base == ToLowerCase(file.name)
      parses == file.parsed # None
      top == IF parses THEN Some(Get(file.parsed).top) ELSE None
  IN IF base = PackageJson
     THEN IF ~parses THEN [threw |-> TRUE, conf |-> EmptyConfig]
          ELSE [threw |-> FALSE,
                conf |-> normalize(
                  IF Get(file.parsed).bookstack # None THEN Get(file.parsed).bookstack
                  ELSE IF Get(file.parsed).bookstackCli # None
                  THEN Get(file.parsed).bookstackCli
                  ELSE Some(EmptyObject))]
     ELSE IF ext = <<>>
     THEN [threw |-> FALSE, conf |-> IF parses THEN normalize(top) ELSE EmptyConfig]
     ELSE IF ext \in {ExtJson, ExtYaml, ExtYml, ExtToml}
     THEN [threw |-> ~parses, conf |-> IF parses THEN normalize(top) ELSE EmptyConfig]
     ELSE [threw |-> FALSE, conf |-> EmptyConfig]

RECURSIVE FirstConfig(_, _)
\* the loop of findFileConfig over its candidates
FirstConfig(disk, candidates) ==
  IF candidates = <<>> THEN EmptyConfig
  ELSE LET found == {f \in disk : f.name = Head(candidates)}
       IN IF found # {} /\ ~readConfigFile(Get(found)).threw
          THEN [readConfigFile(Get(found)).conf EXCEPT !.source = Some(Head(candidates))]
          ELSE FirstConfig(disk, Tail(candidates))

\* findFileConfig(explicitPath)
findFileConfig(disk, explicitPath) ==
  FirstConfig(disk, IF Truthy(explicitPath) THEN <<Get(explicitPath)>>
                    ELSE SEARCH_FILENAMES)

EnvUrlKeys == <<"BOOKSTACK_URL", "BOOKSTACK_BASE_URL", "BOOKSTACK_HOST">>
EnvTokenIdKeys == <<"BOOKSTACK_TOKEN_ID", "BOOKSTACK_ID">>
EnvTokenSecretKeys == <<"BOOKSTACK_TOKEN_SECRET", "BOOKSTACK_SECRET">>
EnvKeys == Range(EnvUrlKeys) \cup Range(EnvTokenIdKeys) \cup Range(EnvTokenSecretKeys)

NoEnv == [k \in EnvKeys |-> None]

\* dotenv.config({ path, override }): the entries of the file go to
\* process.env, over what is there only with override
dotenvConfig(e, file, override) ==
  IF file = None THEN e
  ELSE [k \in EnvKeys |->
          IF Get(file)[k] # None /\ (override \/ e[k] = None) THEN Get(file)[k]
          ELSE e[k]]

\* parsedEnv = { ...dotenv.parse(.env), ...dotenv.parse(.env.local) }
parsedEnv(dotEnv, dotEnvLocal) ==
  dotenvConfig(dotenvConfig(NoEnv, dotEnv, TRUE), dotEnvLocal, TRUE)

\* const pick = (keys) => ...: the first non-empty of process.env, else of
\* parsedEnv
pick(e, parsed, keys) ==
  LET inEnv == {i \in 1..Len(keys) : Truthy(e[keys[i]])}
      inParsed == {i \in 1..Len(keys) : Truthy(parsed[keys[i]])}
  IN IF inEnv # {} THEN e[keys[SetMin(inEnv)]]
     ELSE IF inParsed # {} THEN parsed[keys[SetMin(inParsed)]]
     ELSE None

\* fromEnv(), given process.env after the two dotenv.config calls
fromEnv(e, parsed) ==
  [url |-> pick(e, parsed, EnvUrlKeys),
   tokenId |-> pick(e, parsed, EnvTokenIdKeys),
   tokenSecret |-> pick(e, parsed, EnvTokenSecretKeys),
   source |-> Some(<<"e", "n", "v">>)]

\* a merge that lets the environment win over the flags
resolveEnvFirst(cliConf, eConf, fConf) ==
  [url |-> OrElse(eConf.url, OrElse(cliConf.url, fConf.url)),
   tokenId |-> OrElse(eConf.tokenId, OrElse(cliConf.tokenId, fConf.tokenId)),
   tokenSecret |-> OrElse(eConf.tokenSecret,
                          OrElse(cliConf.tokenSecret, fConf.tokenSecret)),
   source |-> fConf.source]

\* const resolved = { url: cliConf.url || envConf.url || fileConf.url, ... }
resolveConfig(cliConf, eConf, fConf) ==
  [url |-> OrElse(cliConf.url, OrElse(eConf.url, fConf.url)),
   tokenId |-> OrElse(cliConf.tokenId, OrElse(eConf.tokenId, fConf.tokenId)),
   tokenSecret |-> OrElse(cliConf.tokenSecret,
                          OrElse(eConf.tokenSecret, fConf.tokenSecret)),
   source |-> IF Truthy(cliConf.url) \/ Truthy(cliConf.tokenId)
                   \/ Truthy(cliConf.tokenSecret)
              THEN Some(<<"c", "l", "i">>)
              ELSE IF Truthy(eConf.url) \/ Truthy(eConf.tokenId)
                        \/ Truthy(eConf.tokenSecret)
              THEN Some(<<"e", "n", "v">>)
              ELSE fConf.source]

\* const fileConf = await findFileConfig(opts.explicitPath)
ConfigFindFile ==
  /\ cpc = "findFileConfig"
  /\ fileConf' = findFileConfig(cin.disk, cin.explicitPath)
  /\ cpc' = "fromEnv"
  /\ UNCHANGED <<moreVars, showVars, importVars, uiVars, exportVars, cin, env, envConf, resolved>>

\* const envConf = fromEnv(): the two dotenv.config calls change process.env
ConfigFromEnv ==
  /\ cpc = "fromEnv"
  /\ env' = dotenvConfig(dotenvConfig(env, cin.dotEnv, FALSE), cin.dotEnvLocal, TRUE)
  /\ envConf' = fromEnv(env', parsedEnv(cin.dotEnv, cin.dotEnvLocal))
  /\ cpc' = "resolve"
  /\ UNCHANGED <<moreVars, showVars, importVars, uiVars, exportVars, cin, fileConf, resolved>>

\* const cliConf = normalize(opts.cli), and the merge
ConfigResolve ==
  /\ cpc = "resolve"
  /\ resolved' = Some(resolveConfig(
                   normalize(Some([EmptyObject EXCEPT !["url"] = cin.cli.url,
                                                      !["tokenId"] = cin.cli.tokenId,
                                                      !["tokenSecret"] = cin.cli.tokenSecret])),
                   envConf, fileConf))
  /\ cpc' = "done"
  /\ UNCHANGED <<moreVars, showVars, importVars, uiVars, exportVars, cin, env, fileConf, envConf>>

\* no resolveConfig is running
ConfigIdle ==
  /\ cin = [cli |-> [url |-> None, tokenId |-> None, tokenSecret |-> None],
            explicitPath |-> None, disk |-> {}, env |-> NoEnv, dotEnv |-> None,
            dotEnvLocal |-> None]
  /\ env = NoEnv
  /\ cpc = "idle"
  /\ fileConf = EmptyConfig
  /\ envConf = EmptyConfig
  /\ resolved = None

(* ---------------------------- book show (CLI) -------------------------- *)

\* createSpinner(text).start() ... succeed(msg): what reaches stderr
spinner(err, quiet, msg) == IF quiet THEN err ELSE Append(err, [line |-> "spinner", text |-> msg])

\* { id: p.id, name: p.name, slug: p.slug }
Brief(p) == [id |-> p.id, name |-> p.name, slug |-> p.slug]

BriefAll(ps) == [i \in 1..Len(ps) |-> Brief(ps[i])]

\* const data = { id, slug, name, description, top_level_pages, chapters }
ShowData(book) ==
  [id |-> book.id, slug |-> book.slug, name |-> book.name,
   description |-> IF Truthy(book.description) THEN book.description ELSE None,
   top_level_pages |-> BriefAll(ContentsOfType(book, "page")),
   chapters |-> [i \in 1..Len(ContentsOfType(book, "chapter")) |->
                   [id |-> ContentsOfType(book, "chapter")[i].id,
                    name |-> ContentsOfType(book, "chapter")[i].name,
                    slug |-> ContentsOfType(book, "chapter")[i].slug,
                    pages |-> BriefAll(ChapterPages(ContentsOfType(book, "chapter")[i]))]]]

\* the lines of the human layout: header, description, pages, chapters
HumanLines(book, plain) ==
  LET pages == ContentsOfType(book, "page")
      chapters == ContentsOfType(book, "chapter")
      PageLine(i) ==
        [line |-> "page", id |-> pages[i].id,
         bullet |-> IF plain THEN "-"
                    ELSE IF i = Len(pages) /\ chapters = <<>> THEN "last" ELSE "tee"]
      ChapterLines(ci) ==
        <<[line |-> "chapter", id |-> chapters[ci].id,
           bullet |-> IF plain THEN "*" ELSE IF ci = Len(chapters) THEN "last" ELSE "tee"]>>
          \o [pi \in 1..Len(ChapterPages(chapters[ci])) |->
                [line |-> "page", id |-> ChapterPages(chapters[ci])[pi].id,
                 bullet |-> IF plain THEN "-"
                            ELSE IF pi = Len(ChapterPages(chapters[ci])) THEN "last"
                            ELSE "tee"]]
  IN <<[line |-> "header", id |-> book.id, bullet |-> ""]>>
       \o (IF Truthy(book.description)
           THEN <<[line |-> "description", id |-> book.id, bullet |-> ""]>> ELSE <<>>)
       \o (IF pages # <<>>
           THEN <<[line |-> "Top-level Pages", id |-> book.id, bullet |-> ""]>>
                  \o [i \in 1..Len(pages) |-> PageLine(i)]
           ELSE <<>>)
       \o (IF chapters # <<>>
           THEN <<[line |-> "Chapters", id |-> book.id, bullet |-> ""]>>
                  \o Flat([ci \in 1..Len(chapters) |-> ChapterLines(ci)])
           ELSE <<>>)

\* configureUi({ color, quiet: !!globalOpts.quiet || !!opts.json })
ShowConfigure ==
  /\ spc = "cli"
  /\ quietEnabled' = configureUi(sin.quiet \/ sin.json)
  /\ spc' = "resolve"
  /\ UNCHANGED <<moreVars, importVars, exportVars, configVars, stdout, sin, stderr>>

\* resolveBookId: Book not found ends the process
ShowResolve ==
  /\ spc = "resolve"
  /\ IF resolveBookId(sin.server, sin.bookArg).id = None
     THEN /\ stderr' = Append(stderr, [line |-> "Book not found", text |-> sin.bookArg])
          /\ spc' = "exit1"
     ELSE /\ spc' = "fetch"
          /\ UNCHANGED stderr
  /\ UNCHANGED <<moreVars, importVars, exportVars, configVars, uiVars, sin>>

\* the spinner around client.getBook(bookId), which answers or throws
ShowFetch ==
  /\ spc = "fetch"
  /\ IF getBook(sin.server, Get(resolveBookId(sin.server, sin.bookArg).id)) = None
     THEN /\ spc' = "catch"
          /\ stderr' = stderr
     ELSE /\ spc' = "print"
          /\ stderr' = spinner(stderr, quietEnabled, "Fetched book")
  /\ UNCHANGED <<moreVars, importVars, exportVars, configVars, uiVars, sin>>

\* if (opts.json) console.log(JSON.stringify(data, null, 2)), else the
\* console.log calls of the human layout
ShowPrint ==
  /\ spc = "print"
  /\ LET book == Get(getBook(sin.server, Get(resolveBookId(sin.server, sin.bookArg).id)))
     IN stdout' = IF sin.json
                  THEN consoleLog(stdout, quietEnabled,
                                  [line |-> "json", data |-> ShowData(book)])
                  ELSE IF quietEnabled THEN stdout
                  ELSE stdout \o HumanLines(book, sin.plain)
  /\ spc' = "done"
  /\ UNCHANGED <<moreVars, importVars, exportVars, configVars, quietEnabled, sin, stderr>>

\* catch (error) { handleAxiosError(error) }
ShowHandleError ==
  /\ spc = "catch"
  /\ stderr' = Append(stderr, [line |-> "Error", text |-> sin.bookArg])
  /\ spc' = "exit1"
  /\ UNCHANGED <<moreVars, importVars, exportVars, configVars, uiVars, sin>>

\* no book show is running
ShowIdle ==
  /\ sin = [server |-> [books |-> <<>>], bookArg |-> <<>>, json |-> FALSE,
            plain |-> FALSE, quiet |-> FALSE]
  /\ spc = "idle"
  /\ stderr = <<>>

\* no concurrent runs, console.log as node provides it, no config init
RaceIdle == runs = <<>>

LoggerIdle == consoleLogFn = "log" /\ origLog = None /\ uiCalls = <<>>

ConfigInitIdle == cdisk = None /\ cwrites = <<>>

MoreIdle == RaceIdle /\ LoggerIdle /\ ConfigInitIdle

OthersIdle == UiIdle /\ ExportIdle /\ ConfigIdle /\ ShowIdle /\ MoreIdle

(* ------------------------------ the inputs ----------------------------- *)

RootName == <<"k", "b">>
ApiName == <<"A", "p", "i">>
FaqName == <<"f", "a", "q">>
SubName == <<"s", "u", "b">>
BookArgUpper == <<"K", "B">>
BookArgSlug == <<"d", "o", "c", "s">>
BookArgId == <<"2">>
BookArgNewId == <<"3">>
OldBookName == <<"D", "o", "c", "s", " ", "O", "l", "d">>
ManualName == <<"M", "a", "n", "u", "a", "l">>
MetaChapterName == <<"F", "A", "Q">>
ApiChapterName == <<"A", "P", "I">>
LogoPng == <<"l", "o", "g", "o", ".", "p", "n", "g">>
PageHtml == <<"p", "a", "g", "e", ".", "h", "t", "m", "l">>
PageHtm == <<"o", "l", "d", ".", "H", "T", "M">>
NotesTxt == <<"n", "o", "t", "e", "s", ".", "t", "x", "t">>
GuideMd == <<"g", "u", "i", "d", "e", ".", "M", "D">>
NoteFile == <<"n", "o", "t", "e", ".", "m", "d">>
MdText == <<"#", " ", "T">>
HtmlText == <<"<", "b", ">", "x", "<", "/", "b", ">">>
HtmlPara == <<"<", "p", ">", "x", "<", "/", "p", ">">>
TxtText == <<"a", "\n", "\n", "*", "b", "*">>
ReadmeHeading == <<"i", "n", "t", "r", "o", "\n", "#", " ", "G", "u", "i", "d", "e", " ">>
ReadmePlain == <<"\n", " ", "p", "l", "a", "i", "n", "\n", "m", "o", "r", "e">>
ReadmeBlankHeading == <<"#", " ", " ">>
ReadmeSecond == <<"#", "#", " ", "I", "d", "x">>
SomeDescription == <<"a", "b", "o", "u", "t">>
FmtJson == <<"j", "s", "o", "n">>
NotANumber == <<"x">>
MinusOne == <<"-", "1">>

\* the file of the chain at nesting level k
LevelFile(k) == <<"f", DigitChar(k), ".", "m", "d">>

RECURSIVE Chain(_, _, _)
\* the entries of the folder at nesting level k below a first-level
\* subdirectory: a file when k is in S, a nested folder when k < n
Chain(k, n, S) ==
  (IF k \in S THEN <<File(LevelFile(k), MdText)>> ELSE <<>>)
    \o (IF k < n THEN <<Dir(SubName, Chain(k + 1, n, S))>> ELSE <<>>)

DefaultArgs ==
  [book |-> None, format |-> None, maxDepth |-> None, chapterFrom |-> None,
   flatten |-> FALSE, dryRun |-> FALSE]

\* the values given to --max-depth, besides leaving it out
MaxDepthArgs ==
  {None, Some(NotANumber), Some(MinusOne)}
    \cup {Some(<<DigitChar(d)>>) : d \in 0..MaxDepthArg}

\* a store that already holds two books, two chapters and a page
UsedStore ==
  [books |-> <<[id |-> 1, name |-> RootName, slug |-> RootName, description |-> None],
               [id |-> 2, name |-> OldBookName, slug |-> BookArgSlug,
                description |-> None]>>,
   chapters |-> <<[id |-> 1, book_id |-> 1, name |-> ApiChapterName,
                   description |-> None],
                  [id |-> 2, book_id |-> 2, name |-> FaqName, description |-> None]>>,
   pages |-> <<[id |-> 1, book_id |-> 2, chapter_id |-> Some(2), name |-> FaqName,
                html |-> HtmlPara, markdown |-> None]>>]

Stores == {EmptyStore, UsedStore}

RootFiles == <<File(LogoPng, <<>>), File(ReadmeLower, MdText)>>

\* trees that vary the nesting below a first-level subdirectory, tried with
\* every --max-depth, with and without --flatten and --dry-run
WalkInputs ==
  {[fs |-> Dir(RootName, top \o <<Dir(ApiName, Chain(0, n, S))>>),
    args |-> [DefaultArgs EXCEPT !.maxDepth = d, !.flatten = fl, !.dryRun = dr],
    store |-> EmptyStore] :
     top \in {<<>>, RootFiles}, n \in 0..MaxNest, S \in SUBSET (0..MaxNest),
     d \in MaxDepthArgs, fl \in BOOLEAN, dr \in BOOLEAN}

ChapterMetas ==
  {<<>>,
   <<JsonFile(ChapterMetaFile, JsonInvalid)>>,
   <<JsonFile(ChapterMetaFile, JsonNull)>>,
   <<JsonFile(ChapterMetaFile, JsonObject(None, Some(SomeDescription)))>>,
   <<JsonFile(ChapterMetaFile, JsonObject(Some(<<>>), None))>>,
   <<JsonFile(ChapterMetaFile, JsonObject(Some(MetaChapterName), Some(SomeDescription)))>>}

Readmes ==
  {<<>>,
   <<File(ReadmeUpper, ReadmeHeading)>>,
   <<File(ReadmeLower, ReadmePlain)>>,
   <<File(ReadmeUpper, ReadmeBlankHeading)>>,
   <<File(ReadmeUpper, <<>>), File(IndexMd, ReadmeSecond)>>}

\* trees that vary the sidecar and README of a first-level subdirectory,
\* tried with every --chapter-from
NamingInputs ==
  {[fs |-> Dir(RootName, <<Dir(ApiName, meta \o readme \o <<File(LevelFile(0), MdText)>>),
                           Dir(FaqName, <<File(PageHtml, HtmlText)>>)>>),
    args |-> [DefaultArgs EXCEPT !.chapterFrom = cf, !.flatten = fl, !.dryRun = dr],
    store |-> st] :
     meta \in ChapterMetas, readme \in Readmes,
     cf \in {None, Some(FmtDir), Some(FmtReadme)},
     fl \in BOOLEAN, dr \in BOOLEAN, st \in Stores}

MixedFiles ==
  <<File(GuideMd, MdText), File(LogoPng, <<>>), File(NotesTxt, TxtText),
    File(PageHtm, HtmlPara), File(PageHtml, HtmlText)>>

\* a tree of files of every kind, tried with every -f/--format
FormatInputs ==
  {[fs |-> Dir(RootName, MixedFiles \o <<Dir(ApiName, MixedFiles)>>),
    args |-> [DefaultArgs EXCEPT !.format = f, !.flatten = fl, !.dryRun = dr],
    store |-> EmptyStore] :
     f \in {None, Some(<<>>), Some(FmtMarkdown), Some(FmtHtml), Some(FmtJson)},
     fl \in BOOLEAN, dr \in BOOLEAN}

BookMetas ==
  {<<>>,
   <<JsonFile(BookMetaFile, JsonInvalid)>>,
   <<JsonFile(BookMetaFile, JsonObject(Some(ManualName), Some(SomeDescription)))>>,
   <<JsonFile(BookMetaFile, JsonObject(None, Some(SomeDescription)))>>}

BookArgs ==
  {None, Some(BookArgUpper), Some(BookArgSlug), Some(BookArgId), Some(BookArgNewId)}

\* a small tree tried with every -b/--book, book sidecar and store
BookInputs ==
  {[fs |-> Dir(RootName, meta \o <<File(ReadmeLower, MdText),
                                   Dir(ApiName, <<File(LevelFile(0), MdText)>>)>>),
    args |-> [DefaultArgs EXCEPT !.book = b, !.dryRun = dr],
    store |-> st] :
     meta \in BookMetas, b \in BookArgs, dr \in BOOLEAN, st \in Stores}

Missing == [name |-> RootName, kind |-> "missing", content |-> <<>>,
            json |-> NoJson, entries |-> <<>>]

\* a source that is a single file, or is not there
FileInputs ==
  {[fs |-> f,
    args |-> [DefaultArgs EXCEPT !.book = b, !.format = fmt, !.dryRun = dr],
    store |-> st] :
     f \in {File(NoteFile, TxtText), File(PageHtml, HtmlText),
            File(LogoPng, HtmlText), Missing,
            Dir(RootName, <<>>)},
     b \in {None, Some(BookArgUpper)},
     fmt \in {None, Some(<<>>), Some(FmtHtml)},
     dr \in BOOLEAN, st \in Stores}

Inputs == WalkInputs \cup NamingInputs \cup FormatInputs \cup BookInputs \cup FileInputs

Init ==
  /\ \E in \in Inputs :
       /\ fs = in.fs
       /\ args = in.args
       /\ store = in.store
  /\ options = NoOptions
  /\ pc = "cli"
  /\ calls = <<>>
  /\ targetBook = None
  /\ chapter = None
  /\ total = 0
  /\ current = 0
  /\ idx = 1
  /\ queue = <<>>
  /\ steps = <<>>
  /\ naming = <<>>
  /\ error = None
  /\ reconciled = <<>>
  /\ OthersIdle

Next ==
  \/ CliImport
  \/ ExecuteStart
  \/ TestConnection
  \/ StatSource
  \/ ImportFileBook
  \/ ImportFilePage
  \/ ResolveBook
  \/ UpdateBook
  \/ CountFiles
  \/ RootItem
  \/ RootDone
  \/ SubdirItem
  \/ WalkFile
  \/ WalkDone
  \/ SubdirsDone
  \/ Complete
  \/ HandleError

Spec == Init /\ [][Next]_vars


(* ------------- the Remote Reconciler called again and again ------------- *)

\* how many reconciler calls a run of SpecReconcile makes at most
MaxCalls == 4

NewBookName == <<"N", "e", "w", " ", "B", "o", "o", "k">>

ReconcileBookNames == {BookArgUpper, BookArgSlug, BookArgId, BookArgNewId, NewBookName}
ReconcileChapterNames == {ApiName, FaqName}

BookIds(st) == {st.books[i].id : i \in 1..Len(st.books)}

InitReconcile ==
  /\ store \in Stores
  /\ reconciled = <<>>
  /\ fs = Missing
  /\ args = DefaultArgs
  /\ options = NoOptions
  /\ pc = "reconcile"
  /\ calls = <<>>
  /\ targetBook = None
  /\ chapter = None
  /\ total = 0
  /\ current = 0
  /\ idx = 1
  /\ queue = <<>>
  /\ steps = <<>>
  /\ naming = <<>>
  /\ error = None
  /\ OthersIdle

\* await this.getTargetBook(name, false)
CallGetTargetBook ==
  /\ pc = "reconcile"
  /\ Len(reconciled) < MaxCalls
  /\ \E name \in ReconcileBookNames :
       LET r == getTargetBook(store, name, FALSE)
       IN /\ store' = r.store
          /\ calls' = calls \o r.calls
          /\ targetBook' = Some(r.book)
          /\ reconciled' = Append(reconciled,
               [op |-> "getTargetBook", book_id |-> 0, name |-> name,
                id |-> r.book.id, calls |-> r.calls])
  /\ UNCHANGED <<others, fs, args, options, pc, chapter, total, current, idx, queue,
                 steps, naming, error>>

\* await this.getOrCreateChapter(bookId, name, '', false)
CallGetOrCreateChapter ==
  /\ pc = "reconcile"
  /\ Len(reconciled) < MaxCalls
  /\ \E bookId \in BookIds(store), name \in ReconcileChapterNames :
       LET r == getOrCreateChapter(store, bookId, name, <<>>, FALSE)
       IN /\ store' = r.store
          /\ calls' = calls \o r.calls
          /\ chapter' = Some(r.chapter)
          /\ reconciled' = Append(reconciled,
               [op |-> "getOrCreateChapter", book_id |-> bookId, name |-> name,
                id |-> r.chapter.id, calls |-> r.calls])
  /\ UNCHANGED <<others, fs, args, options, pc, targetBook, total, current, idx, queue,
                 steps, naming, error>>

NextReconcile == CallGetTargetBook \/ CallGetOrCreateChapter

SpecReconcile == InitReconcile /\ [][NextReconcile]_vars


(* ---------------------- runs of book export-contents ------------------- *)

\* an import that never runs
ImportIdle ==
  /\ store = EmptyStore
  /\ reconciled = <<>>
  /\ fs = Missing
  /\ args = DefaultArgs
  /\ options = NoOptions
  /\ pc = "idle"
  /\ calls = <<>>
  /\ targetBook = None
  /\ chapter = None
  /\ total = 0
  /\ current = 0
  /\ idx = 1
  /\ queue = <<>>
  /\ steps = <<>>
  /\ naming = <<>>
  /\ error = None

Item(type, id, name, slug, pages) ==
  [type |-> type, id |-> id, name |-> name, slug |-> slug, pages |-> pages]

IntroName == <<"I", "n", "t", "r", "o">>
IntroSlug == <<"i", "n", "t", "r", "o">>
ChapterOneName == <<"C", "h", "a", "p", "t", "e", "r", " ", " ", "O", "n", "e", "!">>
AccentName == <<"C", "a", "f", "E-ACUTE", " ", "&", " ", "T", "e", "a">>
DotsName == <<" ", ".", ".", "/", "x", "_", "y", " ">>
LongName == [i \in 1..(SanitizeMaxLen + 1) |-> IF i = SanitizeMaxLen THEN "Z" ELSE "a"]
DocBookName == <<"D", "o", "c", " ", "B", "o", "o", "k">>
DocBookSlug == <<"d", "o", "c", "-", "b", "o", "o", "k">>
OutDir == <<"o", "u", "t">>

EvilBookName == <<"e", "v", "i", "l">>
UpPathName == <<".", ".", "/", ".", ".", "/", "e", "t", "c">>
BackslashName == <<".", ".", "\\", "w", "i", "n">>
DashOneName == <<"x", "-", "1">>

\* what the export server holds: a book of top-level pages, chapters with and
\* without pages and an item of another type; a book with no slug whose
\* chapter and page share an id and a name; a book with no contents
ExportServer ==
  [books |->
     <<[id |-> 7, name |-> DocBookName, slug |-> DocBookSlug, description |-> None,
        contents |->
          <<Item("page", 1, IntroName, Some(IntroSlug), None),
            Item("chapter", 1, ChapterOneName, None,
                 Some(<<Item("page", 2, AccentName, Some(<<>>), None),
                        Item("page", 3, DotsName, None, None)>>)),
            Item("bookshelf", 4, IntroName, None, None),
            Item("chapter", 2, IntroName, Some(IntroSlug), None),
            Item("page", 4, LongName, None, None)>>],
       [id |-> 8, name |-> IntroName, slug |-> <<>>, description |-> None,
        contents |->
          <<Item("chapter", 5, IntroName, None,
                 Some(<<Item("page", 5, IntroName, None, None)>>)),
            Item("page", 6, IntroName, None, None)>>],
       [id |-> 5, name |-> OutDir, slug |-> OutDir, description |-> None,
        contents |-> <<>>],
       [id |-> 6, name |-> EvilBookName, slug |-> EvilBookName, description |-> None,
        contents |->
          <<Item("page", 11, DotDot, None, None),
            Item("page", 12, DotDot, Some(DotDot), None),
            Item("page", 13, UpPathName, Some(UpPathName), None),
            Item("chapter", 14, UpPathName, None,
                 Some(<<Item("page", 15, BackslashName, None, None),
                        Item("page", 1, DashOneName, None, None),
                        Item("page", 11, <<"x">>, None, None)>>)),
            Item("chapter", 16, DotDot, Some(DotDot),
                 Some(<<Item("page", 17, UpPathName, None, None)>>))>>]>>]

ExportBookArgs ==
  {<<"7">>, <<"8">>, <<"5">>, <<"6">>, <<"9">>, ToLowerCase(DocBookName), DotsName}

ExportFormatArgs == {FmtMarkdown, <<"H", "T", "M", "L">>, FmtPlaintext, FmtJson}

InitExport ==
  /\ ImportIdle
  /\ MoreIdle
  /\ UiIdle
  /\ ConfigIdle
  /\ ShowIdle
  /\ xin \in [server : {ExportServer}, bookArg : ExportBookArgs,
              dir : {None, Some(OutDir)}, format : ExportFormatArgs,
              dryRun : BOOLEAN, quiet : BOOLEAN]
  /\ xpc = "cli"
  /\ xcalls = <<>>
  /\ dirs = {}
  /\ written = {}
  /\ xfiles = 0
  /\ xi = 1
  /\ xj = 1

NextExport ==
  \/ ExportResolve
  \/ ExportPrepare
  \/ ExportTopPage
  \/ ExportTopPagesDone
  \/ ExportChapterDir
  \/ ExportChapterPage
  \/ ExportChapterDone
  \/ ExportSummary
  \/ ExportHandleError

SpecExport == InitExport /\ [][NextExport]_vars

(* --------------------------- calls of resolveConfig --------------------- *)

CliValue == <<"c", "l", "i">>
EnvValue == <<"e", "n", "v">>
HostValue == <<"h", "o", "s", "t">>
DotEnvValue == <<"d", "o", "t", "e", "n", "v">>
LocalValue == <<"l", "o", "c", "a", "l">>
FileValue == <<"f", "i", "l", "e">>
PkgValue == <<"p", "k", "g">>
LegacyJson == <<"b", "o", "o", "k", "s", "t", "a", "c", "k", "-", "c", "o", "n", "f", "i", "g", ".", "j", "s", "o", "n">>
RcFile == <<".", "b", "o", "o", "k", "s", "t", "a", "c", "k", "r", "c">>
ExplicitToml == <<"M", "y", ".", "T", "O", "M", "L">>

ConfigFile(name, parsed) == [name |-> name, parsed |-> parsed]
Parsed(top, bookstack, bookstackCli) ==
  Some([top |-> top, bookstack |-> bookstack, bookstackCli |-> bookstackCli])

FileObject ==
  [EmptyObject EXCEPT !["base_url"] = Some(FileValue), !["token_id"] = Some(FileValue),
                      !["tokenSecret"] = Some(FileValue), !["url"] = Some(<<>>)]
PkgObject == [EmptyObject EXCEPT !["url"] = Some(PkgValue), !["tokenId"] = Some(PkgValue)]

\* the config files found in the working directory
ConfigDisks ==
  {{},
   {ConfigFile(LegacyJson, None), ConfigFile(RcFile, Parsed(FileObject, None, None))},
   {ConfigFile(RcFile, None), ConfigFile(PackageJson, Parsed(EmptyObject, Some(PkgObject), None))},
   {ConfigFile(PackageJson, Parsed(FileObject, None, Some(PkgObject)))},
   {ConfigFile(ExplicitToml, Parsed(FileObject, None, None)),
    ConfigFile(PackageJson, Parsed(EmptyObject, Some(PkgObject), None))}}

ProcessEnvs ==
  {[NoEnv EXCEPT !["BOOKSTACK_URL"] = u, !["BOOKSTACK_HOST"] = h,
                 !["BOOKSTACK_TOKEN_ID"] = t] :
     u \in {None, Some(<<>>), Some(EnvValue)}, h \in {None, Some(HostValue)},
     t \in {None, Some(EnvValue)}}

DotEnvFile ==
  [NoEnv EXCEPT !["BOOKSTACK_URL"] = Some(DotEnvValue),
                !["BOOKSTACK_SECRET"] = Some(DotEnvValue)]
DotEnvLocalFile == [NoEnv EXCEPT !["BOOKSTACK_URL"] = Some(LocalValue)]

InitConfig ==
  /\ ImportIdle
  /\ MoreIdle
  /\ UiIdle
  /\ ExportIdle
  /\ ShowIdle
  /\ cin \in [cli : [url : {None, Some(<<>>), Some(CliValue)},
                     tokenId : {None, Some(CliValue)},
                     tokenSecret : {None, Some(CliValue)}],
              explicitPath : {None, Some(ExplicitToml)},
              disk : ConfigDisks,
              env : ProcessEnvs,
              dotEnv : {None, Some(DotEnvFile)},
              dotEnvLocal : {None, Some(DotEnvLocalFile)}]
  /\ env = cin.env
  /\ cpc = "findFileConfig"
  /\ fileConf = EmptyConfig
  /\ envConf = EmptyConfig
  /\ resolved = None

NextConfig == ConfigFindFile \/ ConfigFromEnv \/ ConfigResolve

SpecConfig == InitConfig /\ [][NextConfig]_vars

(* ------------------------------ runs of book show ----------------------- *)

InitShow ==
  /\ ImportIdle
  /\ MoreIdle
  /\ UiIdle
  /\ ExportIdle
  /\ ConfigIdle
  /\ sin \in [server : {ExportServer}, bookArg : ExportBookArgs, json : BOOLEAN,
              plain : BOOLEAN, quiet : BOOLEAN]
  /\ spc = "cli"
  /\ stderr = <<>>

NextShow == ShowConfigure \/ ShowResolve \/ ShowFetch \/ ShowPrint \/ ShowHandleError

SpecShow == InitShow /\ [][NextShow]_vars

(* ------------- the Remote Reconciler over a failing connection ---------- *)

\* how many reconciler operations a run of SpecFaults makes at most
MaxFaultCalls == 2

\* the failures a request can meet during one operation
Faults(callNames) ==
  {NoFault} \cup {Some([call |-> c, kind |-> k]) : c \in callNames, k \in ErrorKinds}

InitFaults ==
  /\ store \in Stores
  /\ reconciled = <<>>
  /\ pc = "faults"
  /\ calls = <<>>
  /\ targetBook = None
  /\ chapter = None
  /\ error = None
  /\ fs = Missing
  /\ args = DefaultArgs
  /\ options = NoOptions
  /\ total = 0
  /\ current = 0
  /\ idx = 1
  /\ queue = <<>>
  /\ steps = <<>>
  /\ naming = <<>>
  /\ OthersIdle

\* await this.getTargetBook(name, dryRun), one request of which may fail
FaultyGetTargetBook ==
  /\ pc = "faults"
  /\ idx <= MaxFaultCalls
  /\ idx' = idx + 1
  /\ \E name \in ReconcileBookNames, dryRun \in BOOLEAN,
        fault \in Faults({"getBook", "findBookByName", "createBook"}) :
       LET r == getTargetBookOutcome(store, name, dryRun, fault)
       IN /\ store' = r.store
          /\ calls' = r.calls
          /\ targetBook' = r.row
          /\ error' = r.thrown
          /\ reconciled' = <<[op |-> "getTargetBook", name |-> name, dryRun |-> dryRun,
                              fault |-> fault, before |-> store]>>
  /\ UNCHANGED <<others, fs, args, options, pc, chapter, total, current, queue,
                 steps, naming>>

\* await this.getOrCreateChapter(bookId, name, '', dryRun), one request of
\* which may fail
FaultyGetOrCreateChapter ==
  /\ pc = "faults"
  /\ idx <= MaxFaultCalls
  /\ idx' = idx + 1
  /\ \E bookId \in BookIds(store), name \in ReconcileChapterNames, dryRun \in BOOLEAN,
        fault \in Faults({"getChapters", "createChapter"}) :
       LET r == getOrCreateChapterOutcome(store, bookId, name, <<>>, dryRun, fault)
       IN /\ store' = r.store
          /\ calls' = r.calls
          /\ chapter' = r.row
          /\ error' = r.thrown
          /\ reconciled' = <<[op |-> "getOrCreateChapter", name |-> name, dryRun |-> dryRun,
                              fault |-> fault, before |-> store]>>
  /\ UNCHANGED <<others, fs, args, options, pc, targetBook, total, current, queue,
                 steps, naming>>

NextFaults == FaultyGetTargetBook \/ FaultyGetOrCreateChapter

SpecFaults == InitFaults /\ [][NextFaults]_vars


(* ------------------ two import runs against one server ------------------ *)

\* the runs going on at once
Runs == {1, 2}

LowerBookName == <<"n", "e", "w", " ", "b", "o", "o", "k">>
LowerApiName == ToLowerCase(ApiName)

RaceBookNames == {NewBookName, LowerBookName}
RaceChapterNames == {ApiName, LowerApiName}

\* a run about to call getTargetBook(bookName) and then
\* getOrCreateChapter(book.id, chapterName, '')
RunAt(bookName, chapterName) ==
  [pc |-> "findBook", bookName |-> bookName, chapterName |-> chapterName,
   book |-> None, chapter |-> None,
   foundBookAt |-> 0, createdBookAt |-> 0, foundChapterAt |-> 0, createdChapterAt |-> 0]

InitRace ==
  /\ store \in Stores
  /\ \E b1, b2 \in RaceBookNames, c1, c2 \in RaceChapterNames :
       runs = <<RunAt(b1, c1), RunAt(b2, c2)>>
  /\ pc = "race"
  /\ calls = <<>>
  /\ reconciled = <<>>
  /\ targetBook = None
  /\ chapter = None
  /\ error = None
  /\ fs = Missing
  /\ args = DefaultArgs
  /\ options = NoOptions
  /\ total = 0
  /\ current = 0
  /\ idx = 1
  /\ queue = <<>>
  /\ steps = <<>>
  /\ naming = <<>>
  /\ UiIdle /\ ExportIdle /\ ConfigIdle /\ ShowIdle
  /\ LoggerIdle /\ ConfigInitIdle

RaceFrame ==
  UNCHANGED <<uiVars, exportVars, configVars, showVars, loggerVars, initVars, fs, args,
              options, pc, targetBook, chapter, total, current, idx, queue, steps, naming,
              error, reconciled>>

\* getTargetBook: book = await this.client.findBookByName(bookName)
RaceFindBook ==
  /\ \E r \in Runs :
       /\ runs[r].pc = "findBook"
       /\ LET found == findBookByName(store, runs[r].bookName)
          IN runs' = [runs EXCEPT ![r].book = found,
                                  ![r].foundBookAt = Len(calls) + 1,
                                  ![r].pc = IF found = None THEN "createBook"
                                            ELSE "getChapters"]
  /\ calls' = Append(calls, "findBookByName")
  /\ store' = store
  /\ RaceFrame

\* getTargetBook: if (!book) book = await this.client.createBook(...)
RaceCreateBook ==
  /\ \E r \in Runs :
       /\ runs[r].pc = "createBook"
       /\ LET created == NewBook(store, runs[r].bookName, Some(DefaultBookDescription))
          IN /\ store' = [store EXCEPT !.books = Append(@, created)]
             /\ runs' = [runs EXCEPT ![r].book = Some(created),
                                     ![r].createdBookAt = Len(calls) + 1,
                                     ![r].pc = "getChapters"]
  /\ calls' = Append(calls, "createBook")
  /\ RaceFrame

\* getOrCreateChapter: existing = await this.client.getChapters(bookId);
\* found = existing.find(...)
RaceGetChapters ==
  /\ \E r \in Runs :
       /\ runs[r].pc = "getChapters"
       /\ LET existing == getChapters(store, Get(runs[r].book).id)
              found == Find(existing, LAMBDA ch :
                          ToLowerCase(ch.name) = ToLowerCase(runs[r].chapterName))
          IN runs' = [runs EXCEPT ![r].chapter = found,
                                  ![r].foundChapterAt = Len(calls) + 1,
                                  ![r].pc = IF found = None THEN "createChapter"
                                            ELSE "done"]
  /\ calls' = Append(calls, "getChapters")
  /\ store' = store
  /\ RaceFrame

\* getOrCreateChapter: return await this.client.createChapter(bookId, ...)
RaceCreateChapter ==
  /\ \E r \in Runs :
       /\ runs[r].pc = "createChapter"
       /\ LET created == NewChapter(store, Get(runs[r].book).id, runs[r].chapterName,
                                    Some(<<>>))
          IN /\ store' = [store EXCEPT !.chapters = Append(@, created)]
             /\ runs' = [runs EXCEPT ![r].chapter = Some(created),
                                     ![r].createdChapterAt = Len(calls) + 1,
                                     ![r].pc = "done"]
  /\ calls' = Append(calls, "createChapter")
  /\ RaceFrame

NextRace == RaceFindBook \/ RaceCreateBook \/ RaceGetChapters \/ RaceCreateChapter

SpecRace == InitRace /\ [][NextRace]_vars


(* ------------------------- calls of configureUi ------------------------- *)

\* how many configureUi calls a run of SpecUi makes at most
MaxUiCalls == 4

\* opts.quiet: true, false, or left out
QuietOptions == {Some(TRUE), Some(FALSE), None}

\* console.log as the process starts: node's own, or one installed by the
\* caller
InitUi ==
  /\ consoleLogFn \in {"log", "spy"}
  /\ origLog = None
  /\ uiCalls = <<>>
  /\ quietEnabled = FALSE
  /\ stdout = <<>>
  /\ ImportIdle /\ ExportIdle /\ ConfigIdle /\ ShowIdle /\ RaceIdle /\ ConfigInitIdle

\* configureUi({ quiet })
CallConfigureUi ==
  /\ Len(uiCalls) < MaxUiCalls
  /\ \E quiet \in QuietOptions :
       /\ uiCalls' = Append(uiCalls, [quiet |-> quiet, before |-> consoleLogFn])
       /\ IF quiet = None
          THEN UNCHANGED <<quietEnabled, origLog, consoleLogFn>>
          ELSE /\ quietEnabled' = Get(quiet)
               /\ IF Get(quiet)
                  THEN /\ origLog' = SaveOrigLog(origLog, consoleLogFn)
                       /\ consoleLogFn' = "noop"
                  ELSE IF origLog # None
                  THEN /\ consoleLogFn' = Get(origLog)
                       /\ origLog' = origLog
                  ELSE UNCHANGED <<origLog, consoleLogFn>>
  /\ UNCHANGED <<importVars, exportVars, configVars, showVars, raceVars, initVars, stdout>>

NextUi == CallConfigureUi

SpecUi == InitUi /\ [][NextUi]_vars


(* ------------------------------ config init ------------------------------ *)

\* const configPath = program.opts().config || "./bookstack-config.json"
DefaultConfigPath ==
  <<".", "/", "b", "o", "o", "k", "s", "t", "a", "c", "k", "-", "c", "o", "n", "f", "i", "g", ".", "j", "s", "o", "n">>

\* the same file, named without the leading ./
BareConfigPath ==
  <<"b", "o", "o", "k", "s", "t", "a", "c", "k", "-", "c", "o", "n", "f", "i", "g", ".", "j", "s", "o", "n">>

OtherConfigPath == <<"c", "o", "n", "f", "/", ".", ".", "/", "m", "y", ".", "j", "s", "o", "n">>

\* what --config may hold: absent, empty, or a path
ConfigOptions == {None, Some(<<>>), Some(BareConfigPath), Some(OtherConfigPath)}

configPathOf(configOpt) == Get(OrElse(configOpt, Some(DefaultConfigPath)))

\* the file a path leads to
FileAt(path) == pathJoin(<<path>>)

ConfigFiles == {FileAt(configPathOf(o)) : o \in ConfigOptions}

\* const defaultConfig = { url, tokenId, tokenSecret }
defaultConfig ==
  [url |-> "https://your-bookstack-instance.com",
   tokenId |-> "your-token-id",
   tokenSecret |-> "your-token-secret"]

\* a config the user has filled in by hand
UserConfig ==
  [url |-> "https://docs.example.org", tokenId |-> "abc", tokenSecret |-> "xyz"]

\* fs.writeJson(file, obj, { spaces }): the text that lands in the file
JsonText(obj, spaces) == [json |-> Some(obj), spaces |-> spaces]

TemplateSpaces == 2

\* the user's file, indented the user's way
UserFile == JsonText(UserConfig, 4)

\* what may be at a config path before the command runs
ExistingContents ==
  {UserFile, JsonText(defaultConfig, TemplateSpaces),
   [json |-> None, spaces |-> 0]}

\* a pathExists that never finds the file
configPathExistsNever(disk, path) == FALSE

\* fs.pathExists(configPath)
configPathExists(disk, path) == disk[FileAt(path)] # None

\* fs.writeJson(configPath, defaultConfig, { spaces: 2 })
writeJson(disk, path, obj, spaces) ==
  [disk EXCEPT ![FileAt(path)] = Some(JsonText(obj, spaces))]

\* case "init" of the config command: the disk, the writes and the lines after it
configInit(disk, writes, out, configOpt) ==
  LET configPath == configPathOf(configOpt)
  IN IF configPathExists(disk, configPath)
     THEN [disk |-> disk,
           writes |-> writes,
           out |-> Append(out, [line |-> "Config file already exists at",
                                path |-> configPath])]
     ELSE [disk |-> writeJson(disk, configPath, defaultConfig, TemplateSpaces),
           writes |-> Append(writes, [path |-> configPath,
                                      content |-> JsonText(defaultConfig, TemplateSpaces)]),
           out |-> out \o <<[line |-> "Created config file at", path |-> configPath],
                            [line |-> "Please edit the file with your BookStack credentials.",
                             path |-> <<>>]>>]

MaxInitRuns == 3

\* the config init runs so far: each prints one line that names the path
InitRuns == Cardinality({i \in 1..Len(stdout) : stdout[i].path # <<>>})

InitConfigInit ==
  /\ cdisk \in [ConfigFiles -> {None} \cup {Some(c) : c \in ExistingContents}]
  /\ cwrites = <<>>
  /\ quietEnabled = FALSE
  /\ stdout = <<>>
  /\ ImportIdle /\ ExportIdle /\ ConfigIdle /\ ShowIdle /\ RaceIdle /\ LoggerIdle

\* bookstack [--config <path>] config init
ConfigInit ==
  /\ InitRuns < MaxInitRuns
  /\ \E configOpt \in ConfigOptions :
       LET r == configInit(cdisk, cwrites, stdout, configOpt)
       IN /\ cdisk' = r.disk
          /\ cwrites' = r.writes
          /\ stdout' = r.out
  /\ UNCHANGED <<importVars, exportVars, configVars, showVars, raceVars, loggerVars,
                 quietEnabled>>

NextConfigInit == ConfigInit

SpecConfigInit == InitConfigInit /\ [][NextConfigInit]_vars

(* ----------------------------- the properties ---------------------------- *)

RECURSIVE FilesBelow(_, _)
\* every file of a tree, at any depth, with its path
FilesBelow(entries, path) ==
  UNION {IF entries[i].kind = "file"
         THEN {[path |-> Append(path, entries[i].name), name |-> entries[i].name]}
         ELSE IF entries[i].kind = "dir"
         THEN FilesBelow(entries[i].entries, Append(path, entries[i].name))
         ELSE {} : i \in 1..Len(entries)}

FirstLevelDirs == {fs.entries[i] : i \in {j \in 1..Len(fs.entries) : fs.entries[j].kind = "dir"}}

\* the supported files below first-level subdirectory d
SupportedBelow(d) == {f \in FilesBelow(d.entries, <<d.name>>) : isSupportedFile(f.name)}

\* how many folders lie between a first-level subdirectory and the file
Level(path) == Len(path) - 2

StepsAt(path) == {i \in 1..Len(steps) : steps[i].path = path}
CallsOf(op) == {i \in 1..Len(calls) : calls[i] = op}
WriteCalls == {"createBook", "updateBook", "createChapter", "createPage"}

\* a directory import that ran to its end without an error
DirectoryImported == fs.kind = "dir" /\ pc \in {"completed", "done"}

\* C1: count/execute parity: when a directory import completes, the total
\* countFiles returned equals the number of page-creation steps of the
\* execute pass (createPage calls, or 'Would create' lines in dry-run)
C1_CountExecuteParity ==
  DirectoryImported =>
    /\ Len(steps) = total
    /\ \A i \in 1..Len(steps) : steps[i].simulated = args.dryRun
    /\ Cardinality(CallsOf("createPage")) = IF args.dryRun THEN 0 ELSE total

C1_Witness ==
  /\ DirectoryImported
  /\ ~args.dryRun
  /\ options.maxDepth = Num(1)
  /\ total = 2
  /\ \E d \in FirstLevelDirs : \E f \in SupportedBelow(d) : Level(f.path) > 0

SameTarget(a, b) == a.op = b.op /\ a.name = b.name /\ a.book_id = b.book_id

\* C2: find-or-create idempotence: a second call of getTargetBook or
\* getOrCreateChapter right after a first one with the same name returns the
\* same id and issues no createBook / createChapter
C2_FindOrCreateIdempotent ==
  \A i \in 1..(Len(reconciled) - 1) :
    SameTarget(reconciled[i], reconciled[i + 1]) =>
      /\ reconciled[i + 1].id = reconciled[i].id
      /\ "createBook" \notin Range(reconciled[i + 1].calls)
      /\ "createChapter" \notin Range(reconciled[i + 1].calls)

C2_Witness ==
  /\ Len(reconciled) = 4
  /\ SameTarget(reconciled[1], reconciled[2])
  /\ "createBook" \in Range(reconciled[1].calls)
  /\ SameTarget(reconciled[3], reconciled[4])
  /\ "createChapter" \in Range(reconciled[3].calls)

\* C3: in dry-run no createBook, updateBook, createChapter or createPage is
\* ever called
C3_DryRunNoWrites ==
  args.dryRun => \A i \in 1..Len(calls) : calls[i] \notin WriteCalls

C3_Witness ==
  /\ args.dryRun
  /\ pc = "done"
  /\ naming # <<>>
  /\ Len(steps) >= 2
  /\ pathExists(fs.entries, BookMetaFile)

\* C4: with --flatten a directory import never looks up or creates a chapter
\* and makes no page with a chapter_id
C4_FlattenNoChapter ==
  args.flatten =>
    /\ CallsOf("getChapters") = {}
    /\ CallsOf("createChapter") = {}
    /\ naming = <<>>
    /\ chapter = None
    /\ \A i \in 1..Len(steps) : steps[i].page.chapter_id = None

C4_Witness ==
  /\ args.flatten
  /\ ~args.dryRun
  /\ pc = "done"
  /\ \E i \in 1..Len(steps) : Len(steps[i].path) >= 2

C6_DeepFilesKept ==
  (DirectoryImported /\ ~args.flatten) =>
    \A d \in FirstLevelDirs : \A f \in SupportedBelow(d) :
      Cardinality({i \in StepsAt(f.path) : steps[i].page.chapter_id # None}) = 1

\* C7: in flatten mode every supported file at any depth below the root
\* results in exactly one Book-level page creation
C7_FlattenImportsAll ==
  (DirectoryImported /\ args.flatten) =>
    \A f \in FilesBelow(fs.entries, <<>>) :
      isSupportedFile(f.name) =>
        Cardinality({i \in StepsAt(f.path) :
                       /\ steps[i].page.chapter_id = None
                       /\ steps[i].page.book_id = Get(targetBook).id}) = 1

\* the name a subdirectory's .chapter-metadata.json gives, if it parses
SidecarName(d) ==
  IF \E i \in 1..Len(d.entries) :
       d.entries[i].name = ChapterMetaFile /\ d.entries[i].json.kind = "object"
  THEN Get(Lookup(d.entries, ChapterMetaFile)).json.name
  ELSE None

DirNamed(name) == CHOOSE d \in FirstLevelDirs : d.name = name

\* C8: chapter naming precedence: the non-empty sidecar name; else, with
\* chapterFrom = 'readme', the README-derived name when one is derivable;
\* else the directory name.  The README is not consulted when the sidecar
\* names the chapter, and never with chapterFrom = 'dir'
C8_ChapterNaming ==
  /\ \A i \in 1..Len(naming) :
       LET d == DirNamed(naming[i].dir)
           derived == deriveNameFromReadme(d.entries)
       IN IF Truthy(SidecarName(d))
          THEN naming[i].name = Get(SidecarName(d)) /\ ~naming[i].readmeRead
          ELSE IF args.chapterFrom = Some(FmtReadme)
          THEN /\ naming[i].readmeRead
               /\ naming[i].name = IF Truthy(derived) THEN Get(derived) ELSE d.name
          ELSE naming[i].name = d.name /\ ~naming[i].readmeRead
  /\ (pc = "walk" /\ chapter # None) =>
       ToLowerCase(Get(chapter).name) = ToLowerCase(naming[Len(naming)].name)

C8_Witness ==
  /\ pc = "done"
  /\ ~args.dryRun
  /\ \E i \in 1..Len(naming) :
       /\ naming[i].readmeRead
       /\ naming[i].name = <<"G", "u", "i", "d", "e">>
       /\ pathExists(DirNamed(naming[i].dir).entries, ChapterMetaFile)
  /\ \E i \in 1..Len(store.chapters) : store.chapters[i].name = <<"G", "u", "i", "d", "e">>

\* C9: run from the command line on a directory without -f/--format, each
\* file is converted by the format of its own extension: .html/.htm text is
\* the HTML body unchanged with no markdown field, .md/.markdown/.txt text
\* is converted as markdown
C9_FormatByExtension ==
  (args.format = None /\ fs.kind = "dir") =>
    \A i \in 1..Len(steps) :
      LET ext == ToLowerCase(ExtName(steps[i].path[Len(steps[i].path)]))
      IN /\ ext \in {ExtHtml, ExtHtm} =>
              /\ steps[i].page.html = steps[i].content
              /\ steps[i].page.markdown = None
         /\ ext \in {ExtMd, ExtMarkdown, ExtTxt} =>
              /\ steps[i].page.html = simpleMarkdownToHtml(steps[i].content)
              /\ steps[i].page.markdown = Some(steps[i].content)

Last(s) == s[Len(s)]

\* C10: no partial-failure recovery: a failing createPage throws out of
\* execute to the command's catch, no remote call follows it, and what the
\* run created before it stays in the store
C10_NoPartialRecovery ==
  /\ [][(calls' # calls /\ Last(calls') = "createPage" /\ steps' = steps) =>
          (pc' = "catch" /\ error' = Some("createPage failed"))]_vars
  /\ [][error # None => (calls' = calls /\ store' = store /\ error' = error)]_vars
  /\ [](error = Some("createPage failed") =>
          /\ pc \in {"catch", "exit1"}
          /\ Last(calls) = "createPage"
          /\ \E b \in Range(store.books) : b.id = Get(targetBook).id
          /\ chapter # None => Get(chapter) \in Range(store.chapters)
          /\ \A i \in 1..Len(steps) :
               \E j \in 1..Len(store.pages) :
                 /\ store.pages[j].name = steps[i].page.name
                 /\ store.pages[j].book_id = steps[i].page.book_id
                 /\ store.pages[j].chapter_id = steps[i].page.chapter_id)

C10_Witness ==
  /\ error = Some("createPage failed")
  /\ pc = "exit1"
  /\ CallsOf("createBook") # {}
  /\ CallsOf("createChapter") # {}
  /\ Len(steps) >= 2
  /\ Len(store.pages) >= 2


\* the chapters of the store that belong to book id
ChaptersOf(id) == {i \in 1..Len(store.chapters) : store.chapters[i].book_id = id}

\* C11: chapter dedup within one run: first-level subdirectories whose
\* chapter names are equal case-insensitively, or whose name the Book already
\* has, share one chapter: the names of the Book's chapters stay distinct,
\* at most one createChapter is issued per name, and the pages of those
\* subdirectories all carry that chapter's id
C11_ChapterDedup ==
  (~args.dryRun /\ targetBook # None) =>
    /\ \A i, j \in 1..Len(naming) :
         ToLowerCase(naming[i].name) = ToLowerCase(naming[j].name) =>
           naming[i].chapter_id = naming[j].chapter_id
    /\ \A a, b \in ChaptersOf(Get(targetBook).id) :
         ToLowerCase(store.chapters[a].name) = ToLowerCase(store.chapters[b].name)
           => a = b
    /\ Cardinality(CallsOf("createChapter"))
         <= Cardinality({ToLowerCase(naming[i].name) : i \in 1..Len(naming)})
    /\ \A k \in 1..Len(steps) : \A i \in 1..Len(naming) :
         (Len(steps[k].path) >= 2 /\ steps[k].path[1] = naming[i].dir) =>
           steps[k].page.chapter_id = Some(naming[i].chapter_id)

C11_Witness ==
  /\ pc = "done"
  /\ ~args.dryRun
  /\ Len(naming) = 2
  /\ naming[1].name # naming[2].name
  /\ naming[1].chapter_id = naming[2].chapter_id
  /\ Cardinality(CallsOf("createChapter")) = 1
  /\ \A i \in 1..2 : \E k \in 1..Len(steps) : steps[k].path[1] = naming[i].dir


ConnectionFailed == error = Some("Failed to connect to BookStack")

\* C12: the connectivity check: outside dry-run testConnection is the first
\* remote call of the run, and when it reports the store unreachable the run
\* fails with no other remote call made, no book resolved and no page
\* created; in dry-run testConnection is never called
C12_ConnectivityCheck ==
  /\ args.dryRun => CallsOf("testConnection") = {}
  /\ (~args.dryRun /\ calls # <<>>) => calls[1] = "testConnection"
  /\ ConnectionFailed =>
       /\ pc \in {"catch", "exit1"}
       /\ calls = <<"testConnection">>
       /\ targetBook = None
       /\ steps = <<>>

C12_Witness ==
  /\ ConnectionFailed
  /\ pc = "exit1"
  /\ fs.kind = "dir"
  /\ store = UsedStore


\* the extension the format asks for
ExtFor(fmt) ==
  CASE fmt = FmtMarkdown -> <<"m", "d">>
    [] fmt = FmtHtml -> <<"h", "t", "m", "l">>
    [] fmt = FmtPlaintext -> <<"t", "x", "t">>

SlugOrName(x) == IF Truthy(x.slug) THEN Get(x.slug) ELSE x.name

\* sanitize(slug-or-name)-<id>
Stem(x) == sanitize(SlugOrName(x)) \o <<"-">> \o Decimal(x.id)

\* the files of the layout, for the book, root and format of the run: one
\* per top-level page under the root, one per chapter page under the
\* chapter's directory
ExpectedFiles ==
  LET ext == <<".">> \o ExtFor(ExportFmt)
      tops == Range(ContentsOfType(ExportBook, "page"))
      chs == Range(ContentsOfType(ExportBook, "chapter"))
  IN {[path |-> <<ExportRoot, Stem(p) \o ext>>, page |-> p.id] : p \in tops}
       \cup UNION {{[path |-> <<ExportRoot, Stem(ch), Stem(p) \o ext>>, page |-> p.id] :
                      p \in Range(ChapterPages(ch))} : ch \in chs}

\* the pages of the book's content tree, top-level and in chapters
PageCount ==
  Len(ContentsOfType(ExportBook, "page"))
    + SumPages(ContentsOfType(ExportBook, "chapter"))

XCallsOf(op) == {i \in 1..Len(xcalls) : xcalls[i] = op}

\* C13: the export layout: a completed export-contents (no dry-run) has
\* written exactly one file per page, each top-level page at
\* <outRoot>/sanitize(slug-or-name)-<id>.<ext> and each chapter page at
\* <outRoot>/sanitize(chapter slug-or-name)-<chapterId>/sanitize(slug-or-name)-<id>.<ext>,
\* in a directory that was made, and the count of files written is the
\* number of top-level pages plus all chapter pages
C13_ExportLayout ==
  (xpc = "done" /\ ~xin.dryRun) =>
    /\ {[path |-> w.path, page |-> w.page] : w \in written} = ExpectedFiles
    /\ Cardinality(written) = PageCount
    /\ Cardinality(XCallsOf("writeFile")) = PageCount
    /\ xfiles = PageCount
    /\ \A w \in written : SubSeq(w.path, 1, Len(w.path) - 1) \in dirs

C13_Witness ==
  /\ xpc = "done"
  /\ ~xin.dryRun
  /\ xin.dir = None
  /\ ExportFmt = FmtPlaintext
  /\ Cardinality(written) = 4
  /\ \E w \in written : Len(w.path) = 3
  /\ \E w \in written : Len(w.path[2]) > SanitizeMaxLen

\* C14: export dry-run: with --dry-run no ensureDir, writeFile or exportPage
\* is ever called and nothing is made on disk, the lines name the files of
\* the layout, and the count the summary reports is the number of files the
\* run without --dry-run writes for the same content tree
C14_ExportDryRun ==
  xin.dryRun =>
    /\ XCallsOf("ensureDir") = {} /\ XCallsOf("writeFile") = {}
    /\ XCallsOf("exportPage") = {}
    /\ dirs = {} /\ written = {}
    /\ xpc = "done" =>
         /\ xfiles = Cardinality(ExpectedFiles)
         /\ \A i \in 1..Len(stdout) :
              stdout[i].line = "Dry-run summary" =>
                stdout[i].files = Cardinality(ExpectedFiles)
         /\ ~xin.quiet =>
              {stdout[i].path : i \in {k \in 1..Len(stdout) :
                                         stdout[k].line = "Would write"}}
                = {f.path : f \in ExpectedFiles}

C14_Witness ==
  /\ xin.dryRun
  /\ xpc = "done"
  /\ \E i \in 1..Len(stdout) :
       stdout[i].line = "Dry-run summary" /\ stdout[i].files = 4
  /\ \E i \in 1..Len(stdout) : stdout[i].line = "Would ensure dir"


ConfigFields == {"url", "tokenId", "tokenSecret"}

\* the environment variables of a field, and the keys of a config file
EnvKeysOf(f) ==
  CASE f = "url" -> Range(EnvUrlKeys)
    [] f = "tokenId" -> Range(EnvTokenIdKeys)
    [] f = "tokenSecret" -> Range(EnvTokenSecretKeys)
FileKeysOf(f) ==
  CASE f = "url" -> {"url", "baseUrl", "base_url"}
    [] f = "tokenId" -> {"tokenId", "token_id"}
    [] f = "tokenSecret" -> {"tokenSecret", "token_secret"}

\* the non-empty values the environment, .env and .env.local give a field
EnvLayer(f) ==
  {v \in UNION {{cin.env[k]} \cup (IF cin.dotEnv = None THEN {} ELSE {Get(cin.dotEnv)[k]})
                  \cup (IF cin.dotEnvLocal = None THEN {} ELSE {Get(cin.dotEnvLocal)[k]}) :
                  k \in EnvKeysOf(f)} : Truthy(v)}

\* the non-empty values the config files on disk give a field
FileLayer(f) ==
  {v \in UNION {IF file.parsed = None THEN {}
                ELSE UNION {{o[k] : k \in FileKeysOf(f)} :
                              o \in {Get(file.parsed).top} \cup Get(file.parsed).bookstack
                                      \cup Get(file.parsed).bookstackCli} :
                file \in cin.disk} : Truthy(v)}

C16_JsonPrinted ==
  (spc = "done" /\ sin.json) =>
    /\ \E i \in 1..Len(stdout) :
         /\ stdout[i].line = "json"
         /\ stdout[i].data.id = DigitsValue(sin.bookArg, 0)
            \/ ToLowerCase(stdout[i].data.name) = ToLowerCase(sin.bookArg)
    /\ \A i \in 1..Len(stderr) : stderr[i].line # "spinner"


\* the file's basename without its extension
FileStem == BaseName(fs.name, ExtName(fs.name))

\* the name the book of a single-file import goes by
WantedBook == IF Truthy(args.book) THEN Get(args.book) ELSE FileStem

\* C17: single-file import: a run whose source is a file resolves one Book,
\* created under the name --book (else the file's basename without
\* extension) or reused by that name, slug or id; issues exactly one
\* createPage, named by the file's basename, with no chapter_id; and never
\* calls getChapters or createChapter
C17_SingleFileImport ==
  fs.kind = "file" =>
    /\ CallsOf("getChapters") = {} /\ CallsOf("createChapter") = {}
    /\ naming = <<>>
    /\ Cardinality(CallsOf("createBook")) <= 1
    /\ pc \in {"completed", "done"} =>
         LET b == Get(targetBook)
         IN /\ Len(steps) = 1
            /\ steps[1].page.name = FileStem
            /\ steps[1].page.chapter_id = None
            /\ steps[1].page.book_id = b.id
            /\ Cardinality(CallsOf("createPage")) = IF args.dryRun THEN 0 ELSE 1
            /\ CallsOf("createBook") # {} => b.name = WantedBook
            /\ ~args.dryRun =>
                 /\ b \in Range(store.books)
                 /\ \/ ToLowerCase(b.name) = ToLowerCase(WantedBook)
                    \/ ToLowerCase(b.slug) = ToLowerCase(WantedBook)
                    \/ IsAllDigits(WantedBook) /\ b.id = DigitsValue(WantedBook, 0)
                 /\ \E i \in 1..Len(store.pages) :
                      /\ store.pages[i].name = FileStem
                      /\ store.pages[i].book_id = b.id
                      /\ store.pages[i].chapter_id = None

C17_Witness ==
  /\ fs.kind = "file"
  /\ pc = "done"
  /\ ~args.dryRun
  /\ args.book = None
  /\ store.books = <<Get(targetBook)>>
  /\ Get(targetBook).name = <<"n", "o", "t", "e">>
  /\ Len(store.pages) = 1

\* C18: unsupported files are never imported: no page-creation step of any
\* import run is for a file whose extension is outside .md, .markdown,
\* .html, .htm and .txt, whatever its case
C18_UnsupportedSkipped ==
  \A i \in 1..Len(steps) :
    ToLowerCase(ExtName(Last(steps[i].path)))
      \in {ExtMd, ExtMarkdown, ExtHtml, ExtHtm, ExtTxt}


\* the sidecar file metaFile of a directory is there and is not valid JSON
SidecarBroken(entries, metaFile) ==
  \E i \in 1..Len(entries) :
    entries[i].name = metaFile /\ entries[i].json.kind = "invalid"

\* the warnings written about the sidecar file at metaPath
WarningsOf(metaPath) ==
  {i \in 1..Len(stderr) : stderr[i] = [line |-> "Warning", text |-> metaPath]}

\* the subdirectories the second loop has got through
DirsBefore(n) == {i \in 1..Len(fs.entries) : i < n /\ fs.entries[i].kind = "dir"}

\* C19: a sidecar that is not valid JSON is not fatal: the run goes on past
\* it (every first-level subdirectory reached gets its chapter, and the only
\* errors are those of the connection and of createPage), one warning is
\* written about it, its name and description count as absent, and the name
\* comes from the rest of the chain: for a chapter the README-derived name
\* with chapterFrom = 'readme' when one is derivable, else the directory
\* name; for the book --book, else the directory name
C19_SidecarFailureNonFatal ==
  /\ (fs.kind = "dir" /\ SidecarBroken(fs.entries, BookMetaFile) /\ targetBook # None) =>
       /\ Cardinality(WarningsOf(<<BookMetaFile>>)) = 1
       /\ CallsOf("updateBook") = {}
       /\ (args.dryRun \/ CallsOf("createBook") # {}) =>
            Get(targetBook).name = Get(OrElse(args.book, Some(fs.name)))
       /\ pc \notin {"importDirectory", "updateBook"}
  /\ \A i \in 1..Len(naming) :
       LET d == DirNamed(naming[i].dir)
           derived == deriveNameFromReadme(d.entries)
       IN SidecarBroken(d.entries, ChapterMetaFile) =>
            /\ Cardinality(WarningsOf(<<d.name, ChapterMetaFile>>)) = 1
            /\ naming[i].name = IF args.chapterFrom = Some(FmtReadme) /\ Truthy(derived)
                                THEN Get(derived) ELSE d.name
            /\ \A c \in 1..Len(store.chapters) :
                 (store.chapters[c].id = naming[i].chapter_id /\ ~args.dryRun
                  /\ Cardinality(CallsOf("createChapter")) = Len(store.chapters)) =>
                   store.chapters[c].description = Some(<<>>)
  /\ (fs.kind = "dir" /\ ~Flatten(options) /\ pc \in {"subdirs", "walk", "completed", "done"}) =>
       Len(naming) = Cardinality(DirsBefore(IF pc = "walk" THEN idx + 1 ELSE idx))
  /\ error \in {None, Some("Failed to connect to BookStack"),
                Some("Source path does not exist"),
                Some("Source must be a file or directory"),
                Some("createPage failed")}

C19_Witness ==
  /\ pc = "done"
  /\ ~args.dryRun
  /\ args.chapterFrom = Some(FmtReadme)
  /\ \E i \in 1..Len(naming) :
       /\ SidecarBroken(DirNamed(naming[i].dir).entries, ChapterMetaFile)
       /\ Truthy(deriveNameFromReadme(DirNamed(naming[i].dir).entries))
       /\ naming[i].name # naming[i].dir
       /\ WarningsOf(<<naming[i].dir, ChapterMetaFile>>) # {}
       /\ \E k \in 1..Len(steps) : steps[k].page.chapter_id = Some(naming[i].chapter_id)


\* the remote calls by which getTargetBook finds or creates the book
BookCalls == {"getBook", "findBookByName", "createBook"}

\* the position of the first call of the run that is one of names
FirstCall(names) == SetMin({i \in 1..Len(calls) : calls[i] \in names})

\* C20: reconciliation comes before creation: outside dry-run a createPage
\* is only issued once the target book is resolved and on the server, and a
\* createPage with a chapter_id only once getOrCreateChapter has returned
\* that chapter for the page's first-level subdirectory; the page carries
\* the ids the reconciler returned
C20_ReconcileBeforeCreate ==
  /\ [][(calls' # calls /\ Last(calls') = "createPage") =>
          /\ targetBook # None /\ targetBook' = targetBook
          /\ \E b \in Range(store.books) : b.id = Get(targetBook).id
          /\ \E k \in 1..Len(calls) : calls[k] \in BookCalls
          /\ chapter' = chapter /\ naming' = naming
          /\ chapter # None =>
               /\ naming # <<>> /\ Last(naming).chapter_id = Get(chapter).id
               /\ \E ch \in ChaptersOf(Get(targetBook).id) :
                    store.chapters[ch].id = Get(chapter).id
               /\ \E k \in 1..Len(calls) : calls[k] = "getChapters"
          /\ steps' # steps =>
               LET made == Last(steps')
               IN /\ made.page.book_id = Get(targetBook).id
                  /\ made.page.chapter_id =
                       IF chapter = None THEN None ELSE Some(Get(chapter).id)
                  /\ made.page.chapter_id # None =>
                       Last(naming).dir = made.path[1]]_vars
  /\ []((~args.dryRun /\ CallsOf("createPage") # {}) =>
          /\ FirstCall(BookCalls) < FirstCall({"createPage"})
          /\ \A i \in 1..Len(steps) :
               steps[i].page.chapter_id # None =>
                 \E n \in 1..Len(naming) :
                   /\ naming[n].dir = steps[i].path[1]
                   /\ steps[i].page.chapter_id = Some(naming[n].chapter_id)
                   /\ FirstCall({"getChapters"}) < FirstCall({"createPage"})
                      \/ \E j \in 1..Len(steps) : steps[j].page.chapter_id = None)

C20_Witness ==
  /\ pc = "done"
  /\ ~args.dryRun
  /\ CallsOf("createBook") # {}
  /\ Cardinality(CallsOf("createChapter")) >= 2
  /\ \E i, j \in 1..Len(steps) :
       /\ steps[i].page.chapter_id # None
       /\ steps[j].page.chapter_id # None
       /\ steps[i].page.chapter_id # steps[j].page.chapter_id


\* the operation last made over the failing connection, and whether the
\* request it was to fail on was issued
LastOp == reconciled[1]
FaultHit == /\ reconciled # <<>> /\ LastOp.fault # None
            /\ Get(LastOp.fault).call \in Range(calls)

\* C21: errors surface in reconciliation: a request of getTargetBook or
\* getOrCreateChapter that fails makes the operation throw that very error,
\* the store left as it was, except that a getBook answering not-found is
\* passed over and the search by name follows
C21_ErrorsSurface ==
  FaultHit =>
    IF LastOp.fault = Some([call |-> "getBook", kind |-> "notFound"])
    THEN error = None /\ "findBookByName" \in Range(calls)
    ELSE /\ error = Some(Get(LastOp.fault).kind)
         /\ Last(calls) = Get(LastOp.fault).call
         /\ store = LastOp.before


\* the count pass of a directory import has not ended yet
BeforeCountEnd == fs.kind = "dir" /\ pc \in {"importDirectory", "updateBook", "count"}

\* C22 as stated: no createBook, updateBook, createChapter or createPage
\* call comes before the end of the count pass
C22_NoWriteBeforeCount ==
  BeforeCountEnd => \A i \in 1..Len(calls) : calls[i] \notin WriteCalls

\* C22: the count pass is pure and comes before the pages: countFiles issues
\* no remote call and changes nothing on the server, and no createChapter or
\* createPage call comes before its end; the book is resolved before it, so
\* createBook and updateBook may have been called by then
C22_CountPassPure ==
  /\ [][pc = "count" =>
          /\ calls' = calls /\ store' = store /\ steps' = steps
          /\ total' = countFiles(fs.entries, options)]_vars
  /\ [](BeforeCountEnd =>
          /\ CallsOf("createChapter") = {} /\ CallsOf("createPage") = {}
          /\ steps = <<>>
          /\ \A i \in 1..Len(calls) :
               calls[i] \in {"testConnection", "getBook", "findBookByName",
                             "createBook", "updateBook"})

C22_Witness ==
  /\ fs.kind = "dir"
  /\ pc = "rootFiles" /\ idx = 1
  /\ total >= 2
  /\ ~args.dryRun
  /\ CallsOf("createBook") # {}
  /\ CallsOf("updateBook") # {}
  /\ CallsOf("createPage") = {}


\* the chapters of the store that have this id and belong to this book
ChapterIn(id, bookId) ==
  {i \in 1..Len(store.chapters) :
     store.chapters[i].id = id /\ store.chapters[i].book_id = bookId}

\* C23: a page's chapter belongs to the page's book: every createPage call
\* of an import that carries a chapter_id carries the id of a chapter that
\* the store holds in the book of the call's book_id, the one
\* getOrCreateChapter read from or created in the target book
C23_ChapterInSameBook ==
  /\ [][(calls' # calls /\ Last(calls') = "createPage" /\ chapter # None) =>
          /\ Get(chapter).book_id = Get(targetBook).id
          /\ ChapterIn(Get(chapter).id, Get(targetBook).id) # {}
          /\ steps' # steps =>
               /\ Last(steps').page.book_id = Get(targetBook).id
               /\ Last(steps').page.chapter_id = Some(Get(chapter).id)]_vars
  /\ [](\A i \in 1..Len(steps) :
          (~steps[i].simulated /\ steps[i].page.chapter_id # None) =>
            /\ ChapterIn(Get(steps[i].page.chapter_id), steps[i].page.book_id) # {}
            /\ \E p \in 1..Len(store.pages) :
                 /\ store.pages[p].name = steps[i].page.name
                 /\ store.pages[p].chapter_id = steps[i].page.chapter_id
                 /\ store.pages[p].book_id = steps[i].page.book_id)

C23_Witness ==
  /\ pc = "done"
  /\ ~args.dryRun
  /\ Len(store.books) >= 2
  /\ \E i \in 1..Len(steps) :
       /\ steps[i].page.chapter_id # None
       /\ \E c \in 1..Len(store.chapters) :
            /\ store.chapters[c].book_id # steps[i].page.book_id
            /\ ToLowerCase(store.chapters[c].name) = ToLowerCase(Last(naming).name)


\* C24: markdown retention: a created page whose HTML body is the markdown
\* conversion of the file text holds that text in its markdown field, and a
\* page whose body is the file text passed through as HTML has no markdown
\* field
C24_MarkdownRetention ==
  \A i \in 1..Len(steps) :
    LET page == steps[i].page
        text == steps[i].content
    IN ~steps[i].simulated =>
         /\ (page.html = simpleMarkdownToHtml(text) /\ page.html # text) =>
              page.markdown = Some(text)
         /\ (page.html = text /\ page.html # simpleMarkdownToHtml(text)) =>
              page.markdown = None


\* C25: progress accounting: the counter of the progress bar never goes
\* down and never passes the total of the count pass; it stands at the
\* number of files handled so far, and when a directory import completes it
\* equals the total exactly, one tick for each page-creation step
C25_ProgressAccounting ==
  /\ [][current' >= current /\ current' <= current + 1]_vars
  /\ [](current <= total)
  /\ [](fs.kind = "dir" => current = Len(steps))
  /\ [](DirectoryImported => current = total /\ Len(steps) = total)

C25_Witness ==
  /\ DirectoryImported
  /\ ~args.dryRun
  /\ total >= 3
  /\ current = total
  /\ \E i, j \in 1..Len(steps) : Len(steps[i].path) = 1 /\ Len(steps[j].path) >= 2


\* the description .book-metadata.json supplies for the source directory
SidecarDescription ==
  IF fs.kind = "dir" /\ pathExists(fs.entries, BookMetaFile)
     /\ Get(Lookup(fs.entries, BookMetaFile)).json.kind = "object"
  THEN Get(Lookup(fs.entries, BookMetaFile)).json.description
  ELSE None

\* the book of the run, as the store holds it
StoredBook == CHOOSE b \in Range(store.books) : b.id = Get(targetBook).id

\* updateBook was called and the store did not take the description
UpdateFailed ==
  /\ CallsOf("updateBook") # {}
  /\ StoredBook.description # SidecarDescription

\* C26: the description update is best-effort: updateBook is called once,
\* right after the book is resolved, exactly when the run is not a dry-run
\* and the sidecar supplies a description; whether it succeeds or fails the
\* run goes on to the count pass and the pages, and no error of the run
\* comes from it
C26_UpdateBestEffort ==
  /\ [][(calls' # calls /\ Last(calls') = "updateBook") =>
          /\ pc' = "count" /\ error' = None
          /\ targetBook' = targetBook
          /\ store' \in {store, updateBook(store, Get(targetBook).id, SidecarDescription)}]_vars
  /\ [](Cardinality(CallsOf("updateBook")) =
          IF /\ fs.kind = "dir" /\ ~args.dryRun /\ Truthy(SidecarDescription)
             /\ targetBook # None /\ pc \notin {"importDirectory", "updateBook"}
          THEN 1 ELSE 0)
  /\ [](error # None => (calls = <<>> \/ Last(calls) # "updateBook"))
  /\ []((UpdateFailed /\ pc \in {"completed", "done"}) =>
          /\ total = countFiles(fs.entries, options)
          /\ Len(steps) = total
          /\ Cardinality(CallsOf("createPage")) = total)

C26_Witness ==
  /\ pc = "done"
  /\ UpdateFailed
  /\ total >= 1
  /\ Cardinality(CallsOf("createPage")) = total
  /\ \E p \in 1..Len(store.pages) : store.pages[p].book_id = Get(targetBook).id


\* two rows of the store under one name, case aside
DuplicateBooks ==
  \E i, j \in 1..Len(store.books) :
    i # j /\ ToLowerCase(store.books[i].name) = ToLowerCase(store.books[j].name)

DuplicateChapters ==
  \E i, j \in 1..Len(store.chapters) :
    /\ i # j
    /\ store.chapters[i].book_id = store.chapters[j].book_id
    /\ ToLowerCase(store.chapters[i].name) = ToLowerCase(store.chapters[j].name)

SameBookAsked(r, q) == ToLowerCase(runs[r].bookName) = ToLowerCase(runs[q].bookName)

SameChapterAsked(r, q) ==
  /\ runs[r].book # None /\ runs[r].book = runs[q].book
  /\ ToLowerCase(runs[r].chapterName) = ToLowerCase(runs[q].chapterName)

\* C27 as stated: however the find-then-create steps of two runs interleave,
\* the store ends with at most one book and one chapter of a name
C27_NoDuplicateUnderRace == ~DuplicateBooks /\ ~DuplicateChapters

\* C27: reuse over duplicate-create holds for a run that looks after the
\* other has created: its find returns the other's book or chapter and it
\* creates nothing; two rows of one name arise only when each run's find
\* came before the other's create, there being no mutual exclusion
C27_ReuseAfterCreate ==
  /\ \A r, q \in Runs :
       (r # q /\ SameBookAsked(r, q) /\ runs[q].createdBookAt > 0
        /\ runs[r].foundBookAt > runs[q].createdBookAt) =>
         /\ runs[r].createdBookAt = 0
         /\ runs[r].book # None
         /\ ToLowerCase(Get(runs[r].book).name) = ToLowerCase(runs[r].bookName)
  /\ \A r, q \in Runs :
       (r # q /\ SameChapterAsked(r, q) /\ runs[q].createdChapterAt > 0
        /\ runs[r].foundChapterAt > runs[q].createdChapterAt) =>
         /\ runs[r].createdChapterAt = 0
         /\ runs[r].chapter = runs[q].chapter
  /\ DuplicateBooks =>
       \A r, q \in Runs :
         r # q => /\ runs[r].foundBookAt > 0
                  /\ runs[q].createdBookAt = 0 \/ runs[r].foundBookAt < runs[q].createdBookAt
  /\ DuplicateChapters =>
       \A r, q \in Runs :
         r # q => /\ runs[r].foundChapterAt > 0
                  /\ runs[q].createdChapterAt = 0
                     \/ runs[r].foundChapterAt < runs[q].createdChapterAt

C27_Witness ==
  /\ runs # <<>>
  /\ runs[1].pc = "done" /\ runs[2].pc = "done"
  /\ runs[1].bookName # runs[2].bookName
  /\ runs[1].chapterName # runs[2].chapterName
  /\ runs[1].createdBookAt > 0 /\ runs[2].createdBookAt = 0
  /\ runs[1].createdChapterAt > 0 /\ runs[2].createdChapterAt = 0
  /\ runs[2].foundBookAt < runs[1].foundChapterAt
  /\ runs[2].chapter = runs[1].chapter
  /\ ~DuplicateBooks /\ ~DuplicateChapters


\* the configureUi calls that gave a quiet setting, and those that gave true
QuietSettings == {i \in 1..Len(uiCalls) : uiCalls[i].quiet # None}
QuietOn == {i \in 1..Len(uiCalls) : uiCalls[i].quiet = Some(TRUE)}

\* the logger console.log was bound to as the calls began
FirstLogger == IF uiCalls = <<>> THEN consoleLogFn ELSE uiCalls[1].before

\* C28: the quiet toggle restores logging: after any sequence of configureUi
\* calls console.log does nothing exactly when the latest quiet setting is
\* true; when it is false console.log is the logger that was bound before
\* quiet was first turned on; and that logger stays saved however often
\* quiet is turned on
C28_QuietToggle ==
  IF QuietSettings = {}
  THEN ~quietEnabled /\ consoleLogFn = FirstLogger /\ origLog = None
  ELSE LET latest == uiCalls[SetMax(QuietSettings)].quiet = Some(TRUE)
       IN /\ quietEnabled = latest
          /\ (consoleLogFn = "noop") <=> latest
          /\ ~latest => consoleLogFn = FirstLogger
          /\ IF QuietOn = {} THEN origLog = None
             ELSE /\ origLog = Some(uiCalls[SetMin(QuietOn)].before)
                  /\ origLog = Some(FirstLogger)

C28_Witness ==
  /\ Len(uiCalls) = 4
  /\ uiCalls[1].quiet = Some(TRUE)
  /\ uiCalls[2].quiet = Some(TRUE)
  /\ uiCalls[3].quiet = None
  /\ uiCalls[4].quiet = Some(FALSE)
  /\ consoleLogFn = "spy"


\* the path lies below root
Inside(path, root) ==
  LET p == pathJoin(path)
      r == pathJoin(<<root>>)
  IN Len(p) > Len(r) /\ SubSeq(p, 1, Len(r)) = r

\* C29: export path containment: whatever names and slugs the server
\* returns ('/', '\' and '..' included), every directory export-contents
\* makes is outRoot or lies below it, every file it writes lies below
\* outRoot in a directory that was made, and pages of different ids never
\* come to one file path, so that as many files stand as writeFile calls
\* were made
C29_ExportContained ==
  /\ \A d \in dirs : d = <<ExportRoot>> \/ Inside(d, ExportRoot)
  /\ \A w \in written :
       /\ Inside(w.path, ExportRoot)
       /\ \E d \in dirs :
            pathJoin(d) = SubSeq(pathJoin(w.path), 1, Len(pathJoin(w.path)) - 1)
  /\ \A w1, w2 \in written :
       w1.page # w2.page => pathJoin(w1.path) # pathJoin(w2.path)
  /\ Cardinality({pathJoin(w.path) : w \in written}) = Cardinality(XCallsOf("writeFile"))

C29_Witness ==
  /\ xpc = "done"
  /\ ~xin.dryRun
  /\ xin.bookArg = <<"6">>
  /\ Cardinality(written) = 7
  /\ Cardinality(dirs) = 3
  /\ \E w \in written : w.path[Len(w.path)][1] = "." /\ w.page = 11

\* C30: config init never overwrites. A run of config init leaves every file
\* that exists as it is; it writes only when nothing is at the config path,
\* and then what it writes is the default template at that path; a file it
\* has reported on is there afterwards, and a second run with the same
\* --config writes nothing and leaves the disk as the first run left it.
C30_InitNeverOverwrites ==
  /\ [][/\ \A f \in ConfigFiles : cdisk[f] # None => cdisk'[f] = cdisk[f]
        /\ cwrites' # cwrites =>
             /\ Len(cwrites') = Len(cwrites) + 1
             /\ SubSeq(cwrites', 1, Len(cwrites)) = cwrites
             /\ LET w == cwrites'[Len(cwrites')]
                IN /\ cdisk[FileAt(w.path)] = None
                   /\ w.content = JsonText(defaultConfig, TemplateSpaces)
                   /\ cdisk'[FileAt(w.path)] = Some(w.content)
                   /\ \A f \in ConfigFiles \ {FileAt(w.path)} : cdisk'[f] = cdisk[f]
        /\ cwrites' = cwrites => cdisk' = cdisk]_vars
  /\ [](/\ \A i \in 1..Len(stdout) :
             stdout[i].path # <<>> => cdisk[FileAt(stdout[i].path)] # None
        /\ \A o \in ConfigOptions :
             LET once == configInit(cdisk, <<>>, <<>>, o)
                 twice == configInit(once.disk, <<>>, <<>>, o)
             IN /\ twice.disk = once.disk
                /\ twice.writes = <<>>
                /\ cdisk[FileAt(configPathOf(o))] # None =>
                     once.disk = cdisk /\ once.writes = <<>>
                /\ cdisk[FileAt(configPathOf(o))] = None =>
                     once.disk[FileAt(configPathOf(o))]
                       = Some(JsonText(defaultConfig, TemplateSpaces)))

\* a first run created the default file, a second run under another name of
\* the same file found it, and a run left a hand-filled file alone
C30_Witness ==
  /\ Len(cwrites) = 1
  /\ \E i, j \in 1..Len(stdout) :
       /\ i < j
       /\ stdout[i].line = "Created config file at"
       /\ stdout[j].line = "Config file already exists at"
       /\ stdout[i].path # stdout[j].path
       /\ FileAt(stdout[i].path) = FileAt(stdout[j].path)
  /\ \E k \in 1..Len(stdout) :
       /\ stdout[k].line = "Config file already exists at"
       /\ cdisk[FileAt(stdout[k].path)] = Some(UserFile)


=============================================================================
